---------------------------- MODULE Spec2Model ----------------------------
(***************************************************************************)
(* Model of the extraction-and-matching pipeline of Angebot Pro            *)
(* (src/app.py): the regex extractor extract_lv_items, the AI extractor    *)
(* analyze_with_azure_ai, the metadata extractor extract_metadata_with_ai, *)
(* the catalog matcher find_best_match, the table built by                 *)
(* prepare_dataframe_for_display, the three-step wizard of                 *)
(* tab_angebot_erstellen and the Excel and PDF imports of                  *)
(* tab_datenbank_verwalten.                                                *)
(*                                                                         *)
(* Text is a sequence of one-character strings, so that the regular        *)
(* expressions, strip/split/join and float() are computed character by     *)
(* character.  Numbers are fixed-point integers in hundredths (3.5 is      *)
(* 350); a product of two of them is in ten-thousandths.                   *)
(***************************************************************************)
EXTENDS Integers, Sequences, FiniteSets, TLC

(***************************************************************************)
(* Bounds of the model.                                                    *)
(***************************************************************************)
MaxLines == 3
MaxPages == 2

(***************************************************************************)
(* Characters and Python string primitives.                                *)
(***************************************************************************)
Digit == {"0", "1", "2", "3", "4", "5", "6", "7", "8", "9"}

Letter ==
  {"a", "b", "c", "d", "e", "f", "g", "h", "i", "j", "k", "l", "m",
   "n", "o", "p", "q", "r", "s", "t", "u", "v", "w", "x", "y", "z",
   "A", "B", "C", "D", "E", "F", "G", "H", "I", "J", "K", "L", "M",
   "N", "O", "P", "Q", "R", "S", "T", "U", "V", "W", "X", "Y", "Z",
   "^2", "^3"}

Space == {" ", "\t", "\n", "\r", "\f"}

NumChar == Digit \cup {".", ","}

DigitVal(c) ==
  CASE c = "0" -> 0 [] c = "1" -> 1 [] c = "2" -> 2 [] c = "3" -> 3
    [] c = "4" -> 4 [] c = "5" -> 5 [] c = "6" -> 6 [] c = "7" -> 7
    [] c = "8" -> 8 [] c = "9" -> 9

\* s[i-1:] of Python slicing (positions are 1-based here)
From(s, i) == SubSeq(s, i, Len(s))

Range(s) == {s[i] : i \in DOMAIN s}

\* length of the longest prefix of s[i..] whose characters are all in set C
RECURSIVE Run(_, _, _)
Run(s, i, C) ==
  IF i <= Len(s) /\ s[i] \in C THEN 1 + Run(s, i + 1, C) ELSE 0

\* str.strip()
RECURSIVE LStrip(_)
LStrip(s) == IF s # <<>> /\ s[1] \in Space THEN LStrip(Tail(s)) ELSE s

RECURSIVE RStrip(_)
RStrip(s) ==
  IF s # <<>> /\ s[Len(s)] \in Space THEN RStrip(SubSeq(s, 1, Len(s) - 1)) ELSE s

Strip(s) == RStrip(LStrip(s))

\* sub in s
Contains(s, sub) ==
  \E i \in 1..(Len(s) - Len(sub) + 1) : SubSeq(s, i, i + Len(sub) - 1) = sub

\* s.replace(c, r) for a one-character c and a replacement string r
RECURSIVE Replace(_, _, _)
Replace(s, c, r) ==
  IF s = <<>> THEN <<>>
  ELSE (IF s[1] = c THEN r ELSE <<s[1]>>) \o Replace(Tail(s), c, r)

\* sep.join(parts) for a one-character sep
RECURSIVE Join(_, _)
Join(parts, sep) ==
  IF parts = <<>> THEN <<>>
  ELSE IF Len(parts) = 1 THEN parts[1]
  ELSE parts[1] \o <<sep>> \o Join(Tail(parts), sep)

\* Op(e) with e evaluated once, before Op is applied
Eager(Op(_), e) == CHOOSE r \in {Op(x) : x \in {e}} : TRUE

\* s.split(sep) for a one-character sep: always at least one part, the
\* parts lying between the places of sep
Split(s, sep) ==
  LET at   == SelectSeq([i \in 1..Len(s) |-> i], LAMBDA i : s[i] = sep)
      cuts == <<0>> \o at \o <<Len(s) + 1>>
  IN  [k \in 1..(Len(cuts) - 1) |-> SubSeq(s, cuts[k] + 1, cuts[k + 1] - 1)]

(***************************************************************************)
(* float(s) of Python on a string: surrounding blanks are ignored, an      *)
(* optional sign, digits with at most one point and at least one digit.    *)
(* The result is [ok, v] with v in hundredths; ok = FALSE stands for the   *)
(* ValueError.  Exponents, "inf", "nan" and "_" are not modelled; decimals *)
(* past the second are dropped.                                            *)
(***************************************************************************)
RECURSIVE DigitsVal(_)
DigitsVal(s) ==
  IF s = <<>> THEN 0
  ELSE 10 * DigitsVal(SubSeq(s, 1, Len(s) - 1)) + DigitVal(s[Len(s)])

Hundredths(frac) ==
  IF Len(frac) = 0 THEN 0
  ELSE IF Len(frac) = 1 THEN 10 * DigitVal(frac[1])
  ELSE 10 * DigitVal(frac[1]) + DigitVal(frac[2])

PyFloat(s) ==
  LET t    == Strip(s)
      neg  == t # <<>> /\ t[1] = "-"
      body == IF t # <<>> /\ t[1] \in {"-", "+"} THEN Tail(t) ELSE t
      ni   == Run(body, 1, Digit)
      dot  == ni < Len(body) /\ body[ni + 1] = "."
      nf   == IF dot THEN Run(body, ni + 2, Digit) ELSE 0
      used == ni + (IF dot THEN 1 + nf ELSE 0)
      mag  == 100 * DigitsVal(SubSeq(body, 1, ni))
                + Hundredths(SubSeq(body, ni + 2, ni + 1 + nf))
  IN  IF used = Len(body) /\ ni + nf >= 1
      THEN [ok |-> TRUE, v |-> IF neg THEN 0 - mag ELSE mag]
      ELSE [ok |-> FALSE, v |-> 0]

(***************************************************************************)
(* extract_lv_items: the regex fallback (src/app.py 300-338).              *)
(***************************************************************************)

\* oz_pattern  ^(\d{2,}\.\d{2,}\.\d{2,}(?:\.\d{2,})?\.?)\s+(.*)  matched with
\* re.match on the stripped line.  Every digit run is followed by a
\* non-digit in the pattern, so each run is the maximal one.  The result is
\* [ok, oz, rest] with oz = group(1) and rest = group(2).
OzMatch(line) ==
  LET d1  == Run(line, 1, Digit)
      p1  == 1 + d1                       \* position of the first point
      d2  == Run(line, p1 + 1, Digit)
      p2  == p1 + 1 + d2                  \* position of the second point
      d3  == Run(line, p2 + 1, Digit)
      e3  == p2 + d3                      \* last digit of the third group
      d4  == IF e3 + 1 <= Len(line) /\ line[e3 + 1] = "."
             THEN Run(line, e3 + 2, Digit) ELSE 0
      e4  == IF d4 >= 2 THEN e3 + 1 + d4 ELSE e3
      e5  == IF e4 + 1 <= Len(line) /\ line[e4 + 1] = "." THEN e4 + 1 ELSE e4
      ws  == Run(line, e5 + 1, Space)
      ok  == /\ d1 >= 2 /\ p1 <= Len(line) /\ line[p1] = "."
             /\ d2 >= 2 /\ p2 <= Len(line) /\ line[p2] = "."
             /\ d3 >= 2 /\ ws >= 1
  IN  IF ok THEN [ok |-> TRUE, oz |-> SubSeq(line, 1, e5),
                  rest |-> From(line, e5 + ws + 1)]
      ELSE [ok |-> FALSE, oz |-> <<>>, rest |-> <<>>]

\* qty_line_pattern
\*   ^\s*([\d\.,]+)\s*([a-zA-Z^2^3]+|m2|m3|Stk|psch|lfm|h|t)\s*(...)?
\* matched with re.search (anchored by ^).  The first alternative of the unit
\* group takes the maximal run of letters and nothing after the group can
\* fail, so the later alternatives (m2, m3, ...) are never tried; when the
\* character after the number and the blanks is no letter, no alternative
\* and no shorter number matches.  Result [ok, num, unit] = group(1), group(2).
QtyMatch(line) ==
  LET w0 == Run(line, 1, Space)
      n  == Run(line, w0 + 1, NumChar)
      w1 == Run(line, w0 + n + 1, Space)
      u  == Run(line, w0 + n + w1 + 1, Letter)
  IN  IF n >= 1 /\ u >= 1
      THEN [ok |-> TRUE, num |-> SubSeq(line, w0 + 1, w0 + n),
            unit |-> SubSeq(line, w0 + n + w1 + 1, w0 + n + w1 + u)]
      ELSE [ok |-> FALSE, num |-> <<>>, unit |-> <<>>]

\* float(match_qty.group(1).replace('.', '').replace(',', '.'))  (line 327)
GermanFloat(num) == PyFloat(Replace(Replace(num, ".", <<>>), ",", <<".">>))

kwVon     == <<"v", "o", "n">>
kwDatum   == <<"D", "a", "t", "u", "m", ":">>
kwProjekt == <<"P", "r", "o", "j", "e", "k", "t", ":">>

\* NewItem with a quantity already set
NewItemWithQuantity(m) == [oz |-> m.oz, description |-> m.rest, quantity |-> 100, unit |-> <<>>]

\* the dict created at line 320
NewItem(m) == [oz |-> m.oz, description |-> m.rest, quantity |-> 0, unit |-> <<>>]

\* LvStep without the test for "von" at line 325
LvStepNoVon(st, raw) ==
  LET line == Strip(raw)
      oz   == OzMatch(line)
      qty  == QtyMatch(line)
      num  == GermanFloat(qty.num)
  IN  IF line = <<>> THEN st
      ELSE IF oz.ok
        THEN [items |-> IF st.cur # <<>> /\ st.cur[1].quantity > 0
                        THEN Append(st.items, st.cur[1]) ELSE st.items,
              cur   |-> <<NewItem(oz)>>]
      ELSE IF st.cur = <<>> THEN st
      ELSE IF qty.ok
        THEN IF num.ok
             THEN [items |-> Append(st.items,
                               [st.cur[1] EXCEPT !.quantity = num.v,
                                                 !.unit = qty.unit]),
                   cur   |-> <<>>]
             ELSE st
      ELSE IF ~Contains(line, kwDatum) /\ ~Contains(line, kwProjekt)
        THEN [st EXCEPT !.cur[1].description = @ \o <<" ">> \o line]
      ELSE st

\* One pass of the body of the loop "for line in lines" (lines 312-334) on
\* the loop state st = [items, cur]; cur is <<>> for current_item = None and
\* <<item>> otherwise.
LvStep(st, raw) ==
  LET line == Strip(raw)
      oz   == OzMatch(line)
      qty  == QtyMatch(line)
      num  == GermanFloat(qty.num)
  IN  IF line = <<>> THEN st
      ELSE IF oz.ok
        THEN [items |-> IF st.cur # <<>> /\ st.cur[1].quantity > 0
                        THEN Append(st.items, st.cur[1]) ELSE st.items,
              cur   |-> <<NewItem(oz)>>]
      ELSE IF st.cur = <<>> THEN st
      ELSE IF qty.ok /\ ~Contains(line, kwVon)
        THEN IF num.ok
             THEN [items |-> Append(st.items,
                               [st.cur[1] EXCEPT !.quantity = num.v,
                                                 !.unit = qty.unit]),
                   cur   |-> <<>>]
             ELSE st                                   \* except: pass
      ELSE IF ~Contains(line, kwDatum) /\ ~Contains(line, kwProjekt)
        THEN [st EXCEPT !.cur[1].description = @ \o <<" ">> \o line]
      ELSE st

\* lines 336-338: the flush after the loop
LvFlush(st) ==
  IF st.cur # <<>> /\ st.cur[1].quantity > 0
  THEN Append(st.items, st.cur[1]) ELSE st.items

RECURSIVE LvLoop(_, _)
LvLoop(st, ls) ==
  IF ls = <<>> THEN st
  ELSE Eager(LAMBDA next : LvLoop(next, Tail(ls)), LvStep(st, Head(ls)))

\* lines 305-309: a list of pages is joined with "\n", then split into lines
LvLines(pages) == Split(Join(pages, "\n"), "\n")

extract_lv_items(pages) ==
  Eager(LAMBDA ls : LvFlush(LvLoop([items |-> <<>>, cur |-> <<>>], ls)),
        LvLines(pages))

(***************************************************************************)
(* JSON values as json.loads returns them: [t, v] with t the Python type.  *)
(* A dict is the sequence of its <<key, value>> pairs in document order.   *)
(***************************************************************************)
JNull      == [t |-> "null", v |-> 0]
JNum(n)    == [t |-> "num",  v |-> n]
JStr(s)    == [t |-> "str",  v |-> s]
JList(l)   == [t |-> "list", v |-> l]
JDict(kvs) == [t |-> "dict", v |-> kvs]

\* key in d
HasKey(d, key) == \E i \in DOMAIN d.v : d.v[i][1] = key

\* d.get(key, default)
Get(d, key, default) ==
  IF HasKey(d, key)
  THEN d.v[CHOOSE i \in DOMAIN d.v : d.v[i][1] = key][2]
  ELSE default

\* bool(j)
Truthy(j) ==
  CASE j.t = "null" -> FALSE
    [] j.t = "num"  -> j.v # 0
    [] j.t \in {"str", "list", "dict"} -> Len(j.v) > 0

\* a or b
Or(a, b) == IF Truthy(a) THEN a ELSE b

\* float(j): [ok, v]; a TypeError or ValueError is ok = FALSE
ToFloat(j) ==
  CASE j.t = "num" -> [ok |-> TRUE, v |-> j.v]
    [] j.t = "str" -> PyFloat(j.v)
    [] OTHER       -> [ok |-> FALSE, v |-> 0]

(***************************************************************************)
(* analyze_with_azure_ai (src/app.py 216-298).                             *)
(***************************************************************************)
MinPageLen == 50

\* line 244: the page is skipped
AiSkips(page_text) == Strip(page_text) = <<>> \/ Len(page_text) < MinPageLen

\* lines 261-269: the item list of a decoded response
AiItemsList(json_content) ==
  IF json_content.t = "list" THEN json_content.v
  ELSE IF json_content.t = "dict"
    THEN LET list_values ==
               SelectSeq([i \in DOMAIN json_content.v |-> json_content.v[i][2]],
                         LAMBDA x : x.t = "list")
         IN  IF list_values # <<>> THEN list_values[1].v
             ELSE IF HasKey(json_content, "oz") THEN <<json_content>>
             ELSE <<>>
  ELSE <<>>

\* lines 272-279: normalized_item
AiNormalize(item) ==
  LET q == ToFloat(Or(Get(item, "menge", JNum(0)), Get(item, "quantity", JNum(0))))
  IN  [oz          |-> Get(item, "oz", JStr(<<>>)),
       description |-> Or(Get(item, "text", JStr(<<>>)),
                          Get(item, "description", JStr(<<>>))),
       quantity    |-> IF q.ok THEN q.v ELSE 0,
       unit        |-> Or(Get(item, "einheit", JStr(<<>>)),
                          Get(item, "unit", JStr(<<>>)))]

\* AiKeeps without the test of line 281
AiKeepsAll(n) == TRUE

\* line 281: if normalized_item['oz']
AiKeeps(n) == Truthy(n.oz)

\* lines 271-282: the loop over items_list; an element that is no dict has
\* no .get, the AttributeError leaves the loop with the items appended so far
RECURSIVE AiCollect(_, _)
AiCollect(acc, items_list) ==
  IF items_list = <<>> THEN [all_items |-> acc, raised |-> FALSE]
  ELSE IF Head(items_list).t # "dict" THEN [all_items |-> acc, raised |-> TRUE]
  ELSE Eager(LAMBDA n : AiCollect(IF AiKeeps(n) THEN Append(acc, n) ELSE acc,
                                  Tail(items_list)),
             AiNormalize(Head(items_list)))

\* a log entry whose message names page 1 whatever the page is
LogEntryFirstPage(level, kind, page) == [level |-> level, kind |-> kind, page |-> 1]

\* lines 285-293: the dict appended to processing_log; kind and page stand
\* for the message, which names the page number i+1
LogEntry(level, kind, page) == [level |-> level, kind |-> kind, page |-> page]

\* AiStep logging every APIStatusError as an error, status 403 included
AiStepAllErrors(st, page, resp) ==
  CASE resp.kind = "status" ->
         [st EXCEPT !.processing_log = Append(@, LogEntry("error", "api", page))]
    [] resp.kind = "exception" ->
         [st EXCEPT !.processing_log = Append(@, LogEntry("error", "unexpected", page))]
    [] resp.kind = "badjson" ->
         [st EXCEPT !.processing_log = Append(@, LogEntry("warning", "badjson", page))]
    [] resp.kind = "json" ->
         LET c == AiCollect(st.all_items, AiItemsList(resp.json))
         IN  [all_items      |-> c.all_items,
              processing_log |->
                IF c.raised
                THEN Append(st.processing_log, LogEntry("error", "unexpected", page))
                ELSE st.processing_log]

\* AiStep with "except json.JSONDecodeError: pass" at lines 284-286
AiStepSilent(st, page, resp) ==
  CASE resp.kind = "status" ->
         [st EXCEPT !.processing_log =
            Append(@, LogEntry(IF resp.code = 403 THEN "warning" ELSE "error",
                               "api", page))]
    [] resp.kind = "exception" ->
         [st EXCEPT !.processing_log = Append(@, LogEntry("error", "unexpected", page))]
    [] resp.kind = "badjson" -> st
    [] resp.kind = "json" ->
         LET c == AiCollect(st.all_items, AiItemsList(resp.json))
         IN  [all_items      |-> c.all_items,
              processing_log |->
                IF c.raised
                THEN Append(st.processing_log, LogEntry("error", "unexpected", page))
                ELSE st.processing_log]

\* lines 247-293: the body of the page loop for page number page (i+1), on
\* the loop state st = [all_items, processing_log], for the collaborator's
\* answer resp:
\*   [kind |-> "status", code |-> n]  APIStatusError with status_code n
\*   [kind |-> "exception"]           any other exception of the request
\*   [kind |-> "badjson"]             content json.loads rejects
\*   [kind |-> "json", json |-> j]    content decoding to j
AiStep(st, page, resp) ==
  CASE resp.kind = "status" ->
         [st EXCEPT !.processing_log =
            Append(@, LogEntry(IF resp.code = 403 THEN "warning" ELSE "error",
                               "api", page))]
    [] resp.kind = "exception" ->
         [st EXCEPT !.processing_log = Append(@, LogEntry("error", "unexpected", page))]
    [] resp.kind = "badjson" ->
         [st EXCEPT !.processing_log = Append(@, LogEntry("warning", "badjson", page))]
    [] resp.kind = "json" ->
         LET c == AiCollect(st.all_items, AiItemsList(resp.json))
         IN  [all_items      |-> c.all_items,
              processing_log |->
                IF c.raised
                THEN Append(st.processing_log, LogEntry("error", "unexpected", page))
                ELSE st.processing_log]

(***************************************************************************)
(* find_best_match and prepare_dataframe_for_display (src/app.py 340-394). *)
(* A catalog is the sequence of the rows of the table prices; a cell is    *)
(* JNum(n) or JNull (NaN/None).  Ids are whole numbers, prices are in      *)
(* hundredths.  fuzz.partial_token_sort_ratio is a library function: its   *)
(* value is given as score, a function from the catalog's descriptions to  *)
(* 0..100.                                                                 *)
(***************************************************************************)
NoMatchText == <<"-", "-", "-", " ", "K", "E", "I", "N", " ", "T", "R", "E", "F", "F", "E", "R", " ", "-", "-", "-">>

NoMatch(score) ==
  [price |-> 0, description |-> NoMatchText, unit |-> <<>>, score |-> score,
   price_id |-> -1]

\* extractOne returning the last of the choices with the highest score
LastBestChoice(choices, score) ==
  CHOOSE i \in DOMAIN choices :
    /\ \A j \in DOMAIN choices : score[choices[j]] <= score[choices[i]]
    /\ \A j \in (i + 1)..Len(choices) : score[choices[j]] < score[choices[i]]

\* process.extractOne: the index of the first choice with the highest score
BestChoice(choices, score) ==
  CHOOSE i \in DOMAIN choices :
    /\ \A j \in DOMAIN choices : score[choices[j]] <= score[choices[i]]
    /\ \A j \in 1..(i - 1) : score[choices[j]] < score[choices[i]]

\* price_db[price_db['description'] == match_text].iloc[0]
FirstRowWith(price_db, match_text) ==
  price_db[CHOOSE i \in DOMAIN price_db :
             /\ price_db[i].description = match_text
             /\ \A j \in 1..(i - 1) : price_db[j].description # match_text]

\* lines 355-358: int(row['id']) if pd.notna(row['id']) else -1
SafeId(row) == IF row.id.t = "num" THEN row.id.v ELSE -1

\* lines 361-364: float(row['price_min']) if pd.notna(row['price_min']) else 0.0
SafePrice(row) == IF row.price_min.t = "num" THEN row.price_min.v ELSE 0

LowScore == 50

\* find_best_match without the test of line 349
FindBestMatchNoCutoff(item_text, price_db, score) ==
  IF price_db = <<>> THEN NoMatch(0)
  ELSE LET choices    == [i \in DOMAIN price_db |-> price_db[i].description]
           match_text == choices[BestChoice(choices, score)]
           row        == FirstRowWith(price_db, match_text)
       IN  [price |-> SafePrice(row), description |-> row.description,
            unit |-> row.unit, score |-> score[match_text], price_id |-> SafeId(row)]

find_best_match(item_text, price_db, score) ==
  IF price_db = <<>> THEN NoMatch(0)
  ELSE LET choices    == [i \in DOMAIN price_db |-> price_db[i].description]
           match_text == choices[BestChoice(choices, score)]
           best       == score[match_text]
           row        == FirstRowWith(price_db, match_text)
       IN  IF best < LowScore THEN NoMatch(best)
           ELSE [price |-> SafePrice(row), description |-> row.description,
                 unit |-> row.unit, score |-> best, price_id |-> SafeId(row)]

HighScore == 90

\* lines 379-381
StatusIcon(match) ==
  IF match.price > 0
  THEN (IF match.score > HighScore THEN "green" ELSE "yellow")
  ELSE "red"

\* Menge * Preis of two cells: NaN if one of them is NaN, else the product
\* (in ten-thousandths, both factors being in hundredths)
Times(a, b) ==
  IF a.t = "num" /\ b.t = "num" THEN JNum(a.v * b.v) ELSE JNull

\* lines 376-392: the row of one extracted item
DisplayRow(item, price_db, score) ==
  LET match == find_best_match(item.description, price_db, score)
  IN  [Status  |-> StatusIcon(match),
       OZ      |-> item.oz,
       Beschreibung |-> item.description,
       Menge   |-> JNum(item.quantity),
       Einheit |-> item.unit,
       Artikel |-> match.description,
       Preis   |-> JNum(match.price),
       Gesamt  |-> Times(JNum(item.quantity), JNum(match.price))]

\* lines 370-394
prepare_dataframe_for_display(extracted_items, price_db, score) ==
  [i \in DOMAIN extracted_items |-> DisplayRow(extracted_items[i], price_db, score)]

(***************************************************************************)
(* The extraction of the "LV verarbeiten" handler (src/app.py 542-553).    *)
(***************************************************************************)

\* lines 243-295 as a function: the page loop from page i on; resps[i] is the
\* collaborator's answer to the request for page i
RECURSIVE AiLoop(_, _, _, _)
AiLoop(st, pages, i, resps) ==
  IF i > Len(pages) THEN st
  ELSE Eager(LAMBDA next : AiLoop(next, pages, i + 1, resps),
             IF AiSkips(pages[i]) THEN st ELSE AiStep(st, i, resps[i]))

\* analyze_with_azure_ai with AI enabled: [all_items, processing_log]
analyze_with_azure_ai(pages, resps) ==
  AiLoop([all_items |-> <<>>, processing_log |-> <<>>], pages, 1, resps)

\* ExtractItems without the fallback of lines 547-551
ExtractItemsNoFallback(pages_content, use_ai, enabled, resps) ==
  IF use_ai /\ enabled
  THEN LET ai == analyze_with_azure_ai(pages_content, resps)
       IN  [ai_called |-> TRUE, ai_items |-> ai.all_items,
            extracted_items |-> ai.all_items,
            processing_log  |-> ai.processing_log]
  ELSE [ai_called |-> FALSE, ai_items |-> <<>>,
        extracted_items |-> extract_lv_items(pages_content),
        processing_log  |-> <<>>]

\* lines 543-553: extracted_items and processing_log of the handler, with
\* what analyze_with_azure_ai returned when it was called
ExtractItems(pages_content, use_ai, enabled, resps) ==
  IF use_ai /\ enabled
  THEN LET ai == analyze_with_azure_ai(pages_content, resps)
       IN  IF ai.all_items = <<>>
           THEN [ai_called |-> TRUE, ai_items |-> ai.all_items,
                 extracted_items |-> extract_lv_items(pages_content),
                 processing_log  |->
                   Append(ai.processing_log, LogEntry("warning", "fallback", 0))]
           ELSE [ai_called |-> TRUE, ai_items |-> ai.all_items,
                 extracted_items |-> ai.all_items,
                 processing_log  |-> ai.processing_log]
  ELSE [ai_called |-> FALSE, ai_items |-> <<>>,
        extracted_items |-> extract_lv_items(pages_content),
        processing_log  |-> <<>>]

\* Recalc that leaves the column Gesamt as the editor returned it
RecalcStale(df) == df

\* line 609: edited_df['Gesamt'] = edited_df['Menge'] * edited_df['Preis']
Recalc(df) == [i \in DOMAIN df |-> [df[i] EXCEPT !.Gesamt = Times(df[i].Menge, df[i].Preis)]]

\* line 620: final_df['Gesamt'].sum(), NaN cells left out
RECURSIVE SumGesamt(_)
SumGesamt(df) ==
  IF df = <<>> THEN 0
  ELSE (IF Head(df).Gesamt.t = "num" THEN Head(df).Gesamt.v ELSE 0) + SumGesamt(Tail(df))

\* the row the data editor appends: every cell empty
EmptyRow ==
  [Status |-> JNull, OZ |-> JNull, Beschreibung |-> JNull, Menge |-> JNull,
   Einheit |-> JNull, Artikel |-> JNull, Preis |-> JNull, Gesamt |-> JNull]

(***************************************************************************)
(* State.                                                                  *)
(***************************************************************************)
VARIABLES
  lv_pages,        \* extract_lv_items: the argument text (a list of pages)
  lv_lines,        \* extract_lv_items: the lines the loop has not read yet
  current_item,    \* extract_lv_items: current_item, <<>> for None
  items,           \* extract_lv_items: items
  lv_pc,           \* extract_lv_items: "loop", then "done" after the return
  ai_pages,        \* analyze_with_azure_ai: pages
  ai_i,            \* analyze_with_azure_ai: number of pages the loop has left behind
  all_items,       \* analyze_with_azure_ai: all_items
  processing_log,  \* analyze_with_azure_ai: processing_log
  requests,        \* page numbers of the calls of client.chat.completions.create
  responses,       \* what the collaborator answered to each of these calls
  ai_pc,           \* analyze_with_azure_ai: "start", "loop", "wait" (in the call), "done"
  price_db,        \* the rows of the table prices, as load_price_list returns them
  match_in,        \* find_best_match: [item, score] of the call being made
  match_out,       \* <<>>, or <<[match, row]>>: the result and the table row built from it
  ai_enabled,      \* st.session_state.ai_enabled
  step,            \* st.session_state.step
  extracted_items, \* st.session_state.extracted_items
  results_df,      \* st.session_state.results_df, the sequence of its rows
  nav_shown,       \* the page of the last run shows the editor and the buttons of step 2
  file_name,       \* st.session_state.file_name
  session_log,     \* st.session_state.processing_log
  total,           \* step 3: total, the sum shown by st.metric (0 outside step 3)
  saved,           \* <<>>, or <<[file_name, total_price]>> of the save_to_history call just made
  run,             \* <<>>, or <<locals>> of the button handler that just ran
  uploaded_file,   \* the file in the uploader of the Datenbank tab: <<>>, or
                   \* <<[ext, content]>> with content the table read_excel gives
                   \* for an Excel file and the page texts for a PDF file
  id_is_key,       \* the table prices has its column id as INTEGER PRIMARY KEY
  first_page_text, \* extract_metadata_with_ai: the argument
  meta_requests,   \* extract_metadata_with_ai: calls of client.chat.completions.create
  meta_response,   \* <<>>, or <<what the collaborator answered to the call>>
  meta_return,     \* <<>>, or <<[recipient, project_name]>>: the pair returned
  meta_pc          \* extract_metadata_with_ai: "start", "wait" (in the call), "done"

lvVars == <<lv_pages, lv_lines, current_item, items, lv_pc>>

aiVars == <<ai_pages, ai_i, all_items, processing_log, requests,
            responses, ai_pc>>

matchVars == <<price_db, match_in, match_out>>

wizVars == <<step, extracted_items, results_df, nav_shown, file_name, session_log,
             total, saved, run>>

metaVars == <<first_page_text, meta_requests, meta_response, meta_return, meta_pc>>

vars == <<lvVars, aiVars, matchVars, ai_enabled, wizVars, uploaded_file, id_is_key,
          metaVars>>

(***************************************************************************)
(* Lines of an LV the regex extractor is run on.                           *)
(***************************************************************************)
lnOz1     == <<"0", "1", ".", "0", "1", ".", "0", "0", "1", "0", " ", "B", "e", "t", "o", "n">>
lnOz2     == <<"0", "2", ".", "0", "1", ".", "0", "0", "2", "0", ".", " ", "K", "i", "e", "s">>
lnQty     == <<"3", ",", "5", "0", " ", "m", "3">>
lnQtyZero == <<"0", " ", "m", "3">>
lnQtyK    == <<"1", ".", "2", "0", "0", " ", "S", "t", "k">>
lnVon     == <<"1", " ", "v", "o", "n", " ", "2">>
lnBadNum  == <<",", " ", "m">>
lnDesc    == <<"C", "2", "5", "/", "3", "0">>
lnDatum   == <<"D", "a", "t", "u", "m", ":", " ", "1", ".", "1", ".">>
lnBlank   == <<" ", " ">>
lnOzProjekt == <<"0", "3", ".", "0", "1", ".", "0", "0", "3", "0", " ", "P", "r", "o", "j", "e", "k", "t", ":", " ", "A">>

LvLineSet ==
  {lnOz1, lnOz2, lnQty, lnQtyZero, lnQtyK, lnVon, lnBadNum, lnDesc, lnDatum,
   lnBlank, lnOzProjekt}

SeqsUpTo(S, n) == UNION {[1..k -> S] : k \in 0..n}

\* the ways of cutting the line sequence ls into n consecutive pages
RECURSIVE Chunks(_, _)
Chunks(ls, n) ==
  IF n = 1 THEN {<<ls>>}
  ELSE UNION {{<<SubSeq(ls, 1, k)>> \o r : r \in Chunks(From(ls, k + 1), n - 1)}
                : k \in 0..Len(ls)}

\* the documents of n pages that hold the lines ls
LvDocuments(ls, n) == {[i \in 1..n |-> Join(c[i], "\n")] : c \in Chunks(ls, n)}

(***************************************************************************)
(* extract_lv_items, one line per step.                                    *)
(***************************************************************************)
IdleRegex ==
  /\ lv_pages = <<>>
  /\ lv_lines = <<>>
  /\ current_item = <<>>
  /\ items = <<>>
  /\ lv_pc = "done"

IdleAi ==
  /\ ai_pages = <<>>
  /\ ai_i = 0
  /\ all_items = <<>>
  /\ processing_log = <<>>
  /\ requests = <<>>
  /\ responses = <<>>
  /\ ai_pc = "done"

IdleMatch ==
  /\ price_db = <<>>
  /\ match_in = <<>>
  /\ match_out = <<>>

\* no file in the uploader; the table prices as lines 70-79 (or init_db of
\* src/ingest_prices.py) create it
IdleImport == uploaded_file = <<>> /\ id_is_key = TRUE

IdleMeta ==
  /\ first_page_text = <<>>
  /\ meta_requests = 0
  /\ meta_response = <<>>
  /\ meta_return = <<>>
  /\ meta_pc = "done"

\* lines 42-58: the session state of a new session
NewSession ==
  /\ step = 1
  /\ extracted_items = <<>>
  /\ results_df = <<>>
  /\ nav_shown = FALSE
  /\ file_name = <<>>
  /\ session_log = <<>>
  /\ total = 0
  /\ saved = <<>>
  /\ run = <<>>

InitRegex ==
  /\ \E ls \in SeqsUpTo(LvLineSet, MaxLines), n \in 1..MaxPages :
       lv_pages \in LvDocuments(ls, n)
  /\ lv_lines = LvLines(lv_pages)
  /\ current_item = <<>>
  /\ items = <<>>
  /\ lv_pc = "loop"
  /\ IdleAi
  /\ IdleMatch
  /\ ai_enabled = FALSE
  /\ NewSession
  /\ IdleImport
  /\ IdleMeta

\* one iteration of "for line in lines"
LvLine ==
  /\ lv_pc = "loop"
  /\ lv_lines # <<>>
  /\ LET st == LvStep([items |-> items, cur |-> current_item], Head(lv_lines))
     IN  /\ items' = st.items
         /\ current_item' = st.cur
  /\ lv_lines' = Tail(lv_lines)
  /\ UNCHANGED <<lv_pages, lv_pc, aiVars, matchVars, ai_enabled, uploaded_file, metaVars, id_is_key, wizVars>>

\* the loop is exhausted: flush and return items
LvReturn ==
  /\ lv_pc = "loop"
  /\ lv_lines = <<>>
  /\ items' = LvFlush([items |-> items, cur |-> current_item])
  /\ lv_pc' = "done"
  /\ UNCHANGED <<lv_pages, lv_lines, current_item, aiVars, matchVars, ai_enabled, uploaded_file, metaVars, id_is_key, wizVars>>

NextRegex == LvLine \/ LvReturn

SpecRegex == InitRegex /\ [][NextRegex]_vars

(***************************************************************************)
(* analyze_with_azure_ai, one page per step.                               *)
(***************************************************************************)
Pad(n) == [i \in 1..n |-> " "]

pgItem  == lnOz1 \o <<"\n">> \o lnQty          \* 24 characters
pgLong  == pgItem \o Pad(MinPageLen - 24)       \* exactly MinPageLen characters
pgShort == pgItem \o Pad(MinPageLen - 25)       \* one character short
pgBlank == Pad(MinPageLen + 10)                 \* long enough, but blank
pgText  == <<"L", "e", "i", "s", "t", "u", "n", "g", "s", "v", "e", "r", "z", "e", "i", "c", "h", "n", "i", "s">> \o Pad(MinPageLen) \o <<"\n">> \o lnDesc

AiPageSet == {pgLong, pgShort, pgBlank, pgText}

AiDocuments == SeqsUpTo(AiPageSet, MaxPages)

sOz1 == <<"0", "1", ".", "0", "1", ".", "0", "0", "1", "0">>
sOz2 == <<"0", "1", ".", "0", "1", ".", "0", "0", "2", "0">>
sOz3 == <<"0", "1", ".", "0", "1", ".", "0", "0", "3", "0">>
sOz4 == <<"0", "1", ".", "0", "1", ".", "0", "0", "4", "0">>

itBeton ==       \* {"oz":"01.01.0010","text":"Beton","menge":10.5,"einheit":"m3"}
  JDict(<< <<"oz", JStr(sOz1)>>, <<"text", JStr(<<"B", "e", "t", "o", "n">>)>>,
           <<"menge", JNum(1050)>>, <<"einheit", JStr(<<"m", "3">>)>> >>)
itGerman ==      \* {"oz":"01.01.0020","text":"Beton","menge":"3,0","einheit":"m3"}
  JDict(<< <<"oz", JStr(sOz2)>>, <<"text", JStr(<<"B", "e", "t", "o", "n">>)>>,
           <<"menge", JStr(<<"3", ",", "0">>)>>, <<"einheit", JStr(<<"m", "3">>)>> >>)
itPlain ==       \* {"oz":"01.01.0030","description":"Kies","quantity":"2.5","unit":"t"}
  JDict(<< <<"oz", JStr(sOz3)>>, <<"description", JStr(<<"K", "i", "e", "s">>)>>,
           <<"quantity", JStr(<<"2", ".", "5">>)>>, <<"unit", JStr(<<"t">>)>> >>)
itWord ==        \* {"oz":"01.01.0040","text":"Kies","menge":"viel"}
  JDict(<< <<"oz", JStr(sOz4)>>, <<"text", JStr(<<"K", "i", "e", "s">>)>>,
           <<"menge", JStr(<<"v", "i", "e", "l">>)>> >>)
itEmptyOz ==     \* {"oz":"","text":"x"}
  JDict(<< <<"oz", JStr(<<>>)>>, <<"text", JStr(<<"x">>)>> >>)
itNoOz ==        \* {"text":"x","menge":1}
  JDict(<< <<"text", JStr(<<"x">>)>>, <<"menge", JNum(100)>> >>)
itNullOz ==      \* {"oz":null,"text":"x","menge":2}
  JDict(<< <<"oz", JNull>>, <<"text", JStr(<<"x">>)>>, <<"menge", JNum(200)>> >>)
itZeroOz ==      \* {"oz":0,"text":"x","menge":2}
  JDict(<< <<"oz", JNum(0)>>, <<"text", JStr(<<"x">>)>>, <<"menge", JNum(200)>> >>)

Json(j) == [kind |-> "json", json |-> j]

\* what the collaborator may answer to one request
AiResponses ==
  << [kind |-> "status", code |-> 403],
     [kind |-> "status", code |-> 500],
     [kind |-> "exception"],
     [kind |-> "badjson"],
     Json(JList(<<>>)),
     Json(JList(<<itBeton>>)),
     Json(JDict(<< <<"items", JList(<<itGerman>>)>> >>)),
     Json(itPlain),
     Json(itEmptyOz),
     Json(JList(<<itNoOz, itWord, itNullOz, itZeroOz>>)),
     Json(JList(<<itBeton, JStr(<<"x">>), itPlain>>)),
     Json(JDict(<< <<"note", JStr(<<"x">>)>> >>)),
     Json(JNum(500)),
     Json(JDict(<< <<"notes", JList(<<itPlain>>)>>,
                   <<"items", JList(<<itBeton>>)>> >>)) >>

InitAi ==
  /\ ai_enabled \in BOOLEAN
  /\ ai_pages \in AiDocuments
  /\ ai_i = 0
  /\ all_items = <<>>
  /\ processing_log = <<>>
  /\ requests = <<>>
  /\ responses = <<>>
  /\ ai_pc = "start"
  /\ IdleRegex
  /\ IdleMatch
  /\ NewSession
  /\ IdleImport
  /\ IdleMeta

\* lines 217-218: AI is not configured
AiNotConfigured ==
  /\ ai_pc = "start"
  /\ ~ai_enabled
  /\ processing_log' = <<LogEntry("warning", "not-configured", 0)>>
  /\ ai_pc' = "done"
  /\ UNCHANGED <<ai_enabled, uploaded_file, metaVars, id_is_key, ai_pages, ai_i, all_items, requests, responses, lvVars, matchVars, wizVars>>

\* lines 234-241: enter the page loop
AiStart ==
  /\ ai_pc = "start"
  /\ ai_enabled
  /\ ai_pc' = "loop"
  /\ UNCHANGED <<ai_enabled, uploaded_file, metaVars, id_is_key, ai_pages, ai_i, all_items, processing_log, requests,
                 responses, lvVars, matchVars, wizVars>>

\* lines 244-245: continue
AiSkipPage ==
  /\ ai_pc = "loop"
  /\ ai_i < Len(ai_pages)
  /\ AiSkips(ai_pages[ai_i + 1])
  /\ ai_i' = ai_i + 1
  /\ UNCHANGED <<ai_enabled, uploaded_file, metaVars, id_is_key, ai_pages, all_items, processing_log, requests,
                 responses, ai_pc, lvVars, matchVars, wizVars>>

\* lines 247-256: client.chat.completions.create is called for the page; the
\* call blocks until the collaborator answers
AiRequest ==
  /\ ai_pc = "loop"
  /\ ai_i < Len(ai_pages)
  /\ ~AiSkips(ai_pages[ai_i + 1])
  /\ requests' = Append(requests, ai_i + 1)
  /\ ai_pc' = "wait"
  /\ UNCHANGED <<ai_enabled, uploaded_file, metaVars, id_is_key, ai_pages, ai_i, all_items, processing_log,
                 responses, lvVars, matchVars, wizVars>>

\* lines 257-295: the call returns or raises, and the answer is handled
AiPage ==
  /\ ai_pc = "wait"
  /\ \E r \in DOMAIN AiResponses :
       LET st == AiStep([all_items |-> all_items, processing_log |-> processing_log],
                        ai_i + 1, AiResponses[r])
       IN  /\ all_items' = st.all_items
           /\ processing_log' = st.processing_log
           /\ responses' = Append(responses, AiResponses[r])
  /\ ai_i' = ai_i + 1
  /\ ai_pc' = "loop"
  /\ UNCHANGED <<ai_enabled, uploaded_file, metaVars, id_is_key, ai_pages, requests, lvVars, matchVars, wizVars>>

\* lines 297-298: return all_items, processing_log
AiReturn ==
  /\ ai_pc = "loop"
  /\ ai_i = Len(ai_pages)
  /\ ai_pc' = "done"
  /\ UNCHANGED <<ai_enabled, uploaded_file, metaVars, id_is_key, ai_pages, ai_i, all_items, processing_log, requests,
                 responses, lvVars, matchVars, wizVars>>

NextAi ==
  AiNotConfigured \/ AiStart \/ AiSkipPage \/ AiRequest \/ AiPage \/ AiReturn

SpecAi == InitAi /\ [][NextAi]_vars

(***************************************************************************)
(* extract_metadata_with_ai (src/app.py 103-129).                          *)
(***************************************************************************)
sMusterbau == <<"M", "u", "s", "t", "e", "r", "b", "a", "u">>

\* what the answer may hold under 'recipient' or 'project_name': nothing,
\* "", a text, null, a number, a list
MetaFields ==
  <<JStr(<<>>), JStr(sMusterbau), JNull, JNum(500), JList(<<>>)>>

\* the object {"recipient": r, "project_name": p}; index 0 leaves the key out
MetaObject(r, p) ==
  JDict((IF r = 0 THEN <<>> ELSE << <<"recipient", MetaFields[r]>> >>)
          \o (IF p = 0 THEN <<>> ELSE << <<"project_name", MetaFields[p]>> >>))

\* what the collaborator may answer to the request
MetaResponses ==
  {[kind |-> "status", code |-> 403], [kind |-> "exception"], [kind |-> "badjson"]}
    \cup {Json(JList(<<>>)), Json(JNum(500))}
    \cup {Json(MetaObject(r, p)) : r, p \in 0..Len(MetaFields)}

\* lines 114-126, the body of try: [raised, value].  The call raises on a
\* status or transport error, json.loads on malformed JSON, and data.get
\* where data is no dict (AttributeError).
MetaTry(resp) ==
  IF resp.kind = "json" /\ resp.json.t = "dict"
  THEN [raised |-> FALSE,
        value  |-> [recipient    |-> Get(resp.json, "recipient", JStr(<<>>)),
                    project_name |-> Get(resp.json, "project_name", JStr(<<>>))]]
  ELSE [raised |-> TRUE, value |-> <<>>]

\* the handler of lines 127-129
MetaExcept == [recipient |-> JStr(<<>>), project_name |-> JStr(<<>>)]

\* lines 114-129: what the function returns for the answer resp
MetaReturn(resp) ==
  IF MetaTry(resp).raised THEN MetaExcept ELSE MetaTry(resp).value

InitMeta ==
  /\ ai_enabled \in BOOLEAN
  /\ first_page_text \in {<<>>, pgShort, pgLong, pgText}
  /\ meta_requests = 0
  /\ meta_response = <<>>
  /\ meta_return = <<>>
  /\ meta_pc = "start"
  /\ IdleRegex
  /\ IdleAi
  /\ IdleMatch
  /\ NewSession
  /\ IdleImport

\* lines 104-105
MetaDisabled ==
  /\ meta_pc = "start"
  /\ ~ai_enabled
  /\ meta_return' = <<MetaExcept>>
  /\ meta_pc' = "done"
  /\ UNCHANGED <<first_page_text, meta_requests, meta_response, ai_enabled,
                 uploaded_file, id_is_key, lvVars, aiVars, matchVars, wizVars>>

\* lines 114-123: the call is made
MetaRequest ==
  /\ meta_pc = "start"
  /\ ai_enabled
  /\ meta_requests' = meta_requests + 1
  /\ meta_pc' = "wait"
  /\ UNCHANGED <<first_page_text, meta_response, meta_return, ai_enabled,
                 uploaded_file, id_is_key, lvVars, aiVars, matchVars, wizVars>>

\* lines 124-129: the call returns or raises, the function returns
MetaAnswer ==
  /\ meta_pc = "wait"
  /\ \E resp \in MetaResponses :
       /\ meta_response' = <<resp>>
       /\ meta_return' = <<MetaReturn(resp)>>
  /\ meta_pc' = "done"
  /\ UNCHANGED <<first_page_text, meta_requests, ai_enabled,
                 uploaded_file, id_is_key, lvVars, aiVars, matchVars, wizVars>>

NextMeta == MetaDisabled \/ MetaRequest \/ MetaAnswer

SpecMeta == InitMeta /\ [][NextMeta]_vars

(***************************************************************************)
(* find_best_match on one item and the row prepare_dataframe_for_display   *)
(* builds from the result.                                                 *)
(***************************************************************************)
MaxCatalog == 2

dBeton == <<"B", "e", "t", "o", "n">>
dKies  == <<"K", "i", "e", "s">>

CatalogRows ==
  [id : {JNum(1), JNum(2), JNull}, description : {dBeton, dKies},
   unit : {<<"m", "3">>}, price_min : {JNum(0), JNum(1250), JNull}]

Catalogs == SeqsUpTo(CatalogRows, MaxCatalog)

Scores == {0, 49, 50, 90, 91, 100}

lvBeton == [oz |-> sOz1, description |-> dBeton, quantity |-> 350, unit |-> <<"m">>]

InitMatch ==
  /\ price_db \in Catalogs
  /\ \E sc \in [{dBeton, dKies} -> Scores] : match_in = <<[item |-> lvBeton, score |-> sc]>>
  /\ match_out = <<>>
  /\ IdleRegex
  /\ IdleAi
  /\ ai_enabled = FALSE
  /\ NewSession
  /\ IdleImport
  /\ IdleMeta

\* lines 376-392 for one item
MatchItem ==
  /\ match_in # <<>>
  /\ match_out = <<>>
  /\ match_out' =
       <<[match |-> find_best_match(match_in[1].item.description, price_db,
                                    match_in[1].score),
          row   |-> DisplayRow(match_in[1].item, price_db, match_in[1].score)]>>
  /\ UNCHANGED <<price_db, match_in, lvVars, aiVars, ai_enabled, uploaded_file, metaVars, id_is_key, wizVars>>

NextMatch == MatchItem

SpecMatch == InitMatch /\ [][NextMatch]_vars

(***************************************************************************)
(* The wizard of tab_angebot_erstellen (src/app.py 510-640).  An action is *)
(* one click or edit together with the script run it triggers.  The        *)
(* project data (name and recipient) are left out: no step of the wizard   *)
(* depends on them.                                                        *)
(***************************************************************************)
MaxRows == 2

rowBeton == [id |-> JNum(1), description |-> dBeton, unit |-> <<"m", "3">>,
             price_min |-> JNum(1250)]

WizCatalogs == {<<>>, <<rowBeton>>}

\* uploaded files: name and page texts
WizFiles ==
  { [name |-> <<"a">>, pages |-> <<pgLong>>],
    [name |-> <<"b">>, pages |-> <<pgShort, pgText>>],
    [name |-> <<"c">>, pages |-> <<pgText>>] }

\* indices into AiResponses: status 403, [], [itBeton], a list with one
\* usable item
WizResponses == {1, 5, 6, 10}

WizScores == {40, 95}

\* values typed into a number cell; JNull is the emptied cell
EditValues == {JNull, JNum(200)}

InitWizard ==
  /\ ai_enabled \in BOOLEAN
  /\ price_db \in WizCatalogs
  /\ match_in = <<>>
  /\ match_out = <<>>
  /\ NewSession
  /\ IdleImport
  /\ IdleRegex
  /\ IdleAi
  /\ IdleMeta

\* the descriptions of a catalog
Descriptions(db) == {db[i].description : i \in DOMAIN db}

\* NothingFound that never holds
NothingFoundNever(items_found) == FALSE

\* line 559: if not extracted_items
NothingFound(items_found) == items_found = <<>>

\* step 1, "LV verarbeiten" with an uploaded file (lines 528-565) and the
\* first run of step 2 that st.rerun() starts.  The check box is disabled
\* and stays checked while AI is not enabled (line 526).
ProcessLV ==
  /\ step = 1
  /\ \E f \in WizFiles, use_ai \in (IF ai_enabled THEN BOOLEAN ELSE {TRUE}),
        r \in WizResponses :
     \E x \in {ExtractItems(f.pages, use_ai, ai_enabled,
                              [i \in DOMAIN f.pages |-> AiResponses[r]])},
        sc \in [Descriptions(price_db) -> WizScores] :
       LET pages_content == f.pages
       IN  /\ session_log' = x.processing_log
           /\ run' = <<[pages_content |-> pages_content, use_ai |-> use_ai,
                        ai_called |-> x.ai_called, ai_items |-> x.ai_items,
                        extracted_items |-> x.extracted_items]>>
           /\ nav_shown' = ~NothingFound(x.extracted_items)
           /\ IF NothingFound(x.extracted_items)
              THEN UNCHANGED <<step, file_name, extracted_items, results_df>>
              ELSE /\ file_name' = f.name
                   /\ extracted_items' = x.extracted_items
                   /\ results_df' =
                        Recalc(prepare_dataframe_for_display(x.extracted_items,
                                                             price_db, sc))
                   /\ step' = 2
  /\ saved' = <<>>
  /\ UNCHANGED <<total, ai_enabled, uploaded_file, metaVars, id_is_key, lvVars, aiVars, matchVars>>

\* step 2: the user changes the cell Menge of a row (lines 591-610)
EditMenge ==
  /\ step = 2
  /\ results_df # <<>>
  /\ \E i \in DOMAIN results_df, v \in EditValues :
       results_df' = Recalc([results_df EXCEPT ![i].Menge = v])
  /\ run' = <<>>
  /\ saved' = <<>>
  /\ UNCHANGED <<step, nav_shown, extracted_items, file_name, session_log, total, ai_enabled, uploaded_file, metaVars, id_is_key,
                 lvVars, aiVars, matchVars>>

\* step 2: the user changes the cell Preis of a row
EditPreis ==
  /\ step = 2
  /\ results_df # <<>>
  /\ \E i \in DOMAIN results_df, v \in EditValues :
       results_df' = Recalc([results_df EXCEPT ![i].Preis = v])
  /\ run' = <<>>
  /\ saved' = <<>>
  /\ UNCHANGED <<step, nav_shown, extracted_items, file_name, session_log, total, ai_enabled, uploaded_file, metaVars, id_is_key,
                 lvVars, aiVars, matchVars>>

\* step 2: the user adds a row (num_rows="dynamic")
AddRow ==
  /\ step = 2
  /\ nav_shown
  /\ Len(results_df) < MaxRows
  /\ IF results_df # <<>>                      \* line 580, at the start of the run
     THEN /\ results_df' = Recalc(Append(results_df, EmptyRow))
          /\ nav_shown' = TRUE
     ELSE /\ results_df' = results_df
          /\ nav_shown' = FALSE
  /\ run' = <<>>
  /\ saved' = <<>>
  /\ UNCHANGED <<step, extracted_items, file_name, session_log, total, ai_enabled, uploaded_file, metaVars, id_is_key,
                 lvVars, aiVars, matchVars>>

\* step 2: the user deletes a row
DeleteRow ==
  /\ step = 2
  /\ results_df # <<>>
  /\ \E i \in DOMAIN results_df :
       results_df' = Recalc(SubSeq(results_df, 1, i - 1) \o From(results_df, i + 1))
  /\ run' = <<>>
  /\ saved' = <<>>
  /\ UNCHANGED <<step, nav_shown, extracted_items, file_name, session_log, total, ai_enabled, uploaded_file, metaVars, id_is_key,
                 lvVars, aiVars, matchVars>>

\* step 2: "Zurueck" (prev_step), then the run of step 1
BackToUpload ==
  /\ step = 2
  /\ nav_shown
  /\ step' = 1
  /\ nav_shown' = FALSE
  /\ run' = <<>>
  /\ saved' = <<>>
  /\ UNCHANGED <<extracted_items, results_df, file_name, session_log, total,
                 ai_enabled, uploaded_file, metaVars, id_is_key, lvVars, aiVars, matchVars>>

\* step 2: "Weiter zum Export" (next_step), then the run of step 3
ToExport ==
  /\ step = 2
  /\ nav_shown
  /\ step' = 3
  /\ nav_shown' = FALSE
  /\ total' = SumGesamt(results_df)
  /\ run' = <<>>
  /\ saved' = <<>>
  /\ UNCHANGED <<extracted_items, results_df, file_name, session_log, ai_enabled, uploaded_file, metaVars, id_is_key,
                 lvVars, aiVars, matchVars>>

\* step 3: "Speichern" (lines 619-620 and 634-636)
Save ==
  /\ step = 3
  /\ saved' = <<[file_name |-> file_name, total_price |-> SumGesamt(results_df)]>>
  /\ total' = SumGesamt(results_df)
  /\ run' = <<>>
  /\ UNCHANGED <<step, nav_shown, extracted_items, results_df, file_name, session_log,
                 ai_enabled, uploaded_file, metaVars, id_is_key, lvVars, aiVars, matchVars>>

\* step 3: "Neues Angebot" (reset_wizard)
ResetWizard ==
  /\ step = 3
  /\ step' = 1
  /\ extracted_items' = <<>>
  /\ results_df' = <<>>
  /\ nav_shown' = FALSE
  /\ file_name' = <<>>
  /\ session_log' = <<>>
  /\ total' = 0
  /\ run' = <<>>
  /\ saved' = <<>>
  /\ UNCHANGED <<ai_enabled, uploaded_file, metaVars, id_is_key, lvVars, aiVars, matchVars>>

\* step 3: "Zurueck" (prev_step), then the run of step 2
BackToReview ==
  /\ step = 3
  /\ step' = 2
  /\ nav_shown' = (results_df # <<>>)                \* line 580
  /\ results_df' = IF results_df # <<>> THEN Recalc(results_df) ELSE results_df
  /\ total' = 0
  /\ run' = <<>>
  /\ saved' = <<>>
  /\ UNCHANGED <<extracted_items, file_name, session_log, ai_enabled, uploaded_file, metaVars, id_is_key, lvVars,
                 aiVars, matchVars>>

NextWizard ==
  \/ ProcessLV \/ EditMenge \/ EditPreis \/ AddRow \/ DeleteRow
  \/ BackToUpload \/ ToExport \/ Save \/ ResetWizard \/ BackToReview

SpecWizard == InitWizard /\ [][NextWizard]_vars

(***************************************************************************)
(* The Excel import of tab_datenbank_verwalten (src/app.py 649-719).       *)
(* df_import is the table pd.read_excel returned: a description column, a  *)
(* price column and no unit column.  A cell is a string, a number (in      *)
(* hundredths) or NaN, the empty cell.  The character U+20AC is written    *)
(* "EUR".                                                                  *)
(***************************************************************************)
MaxImportRows == 1

Euro == "EUR"

JNaN == [t |-> "nan", v |-> 0]

\* bool(c): NaN is a float other than 0 and so true
PyBool(c) == IF c.t = "nan" THEN TRUE ELSE Truthy(c)

\* a or b
PyOr(a, b) == IF PyBool(a) THEN a ELSE b

\* pd.notna(c)
NotNa(c) == c.t \notin {"nan", "null"}

DigitChar(d) == <<"0", "1", "2", "3", "4", "5", "6", "7", "8", "9">>[d + 1]

\* str(k) for an integer k >= 0
RECURSIVE IntStr(_)
IntStr(k) == IF k < 10 THEN <<DigitChar(k)>> ELSE IntStr(k \div 10) \o <<DigitChar(k % 10)>>

\* str(x) for a float x >= 0 given in hundredths: 12.5 is "12.5", 3.0 is "3.0"
FloatStr(n) ==
  IntStr(n \div 100) \o <<".">> \o
    (IF n % 10 = 0 THEN <<DigitChar((n % 100) \div 10)>>
     ELSE <<DigitChar((n % 100) \div 10), DigitChar(n % 10)>>)

\* str(c)
PyStr(c) ==
  CASE c.t = "str"  -> c.v
    [] c.t = "num"  -> FloatStr(c.v)
    [] c.t = "nan"  -> <<"n", "a", "n">>
    [] c.t = "null" -> <<"N", "o", "n", "e">>

UpperCase == <<"A", "B", "C", "D", "E", "F", "G", "H", "I", "J", "K", "L", "M", "N", "O", "P", "Q", "R", "S", "T", "U", "V", "W", "X", "Y", "Z">>
LowerCase == <<"a", "b", "c", "d", "e", "f", "g", "h", "i", "j", "k", "l", "m", "n", "o", "p", "q", "r", "s", "t", "u", "v", "w", "x", "y", "z">>

\* s.lower()
Lower(s) ==
  [i \in DOMAIN s |->
     IF \E k \in DOMAIN UpperCase : UpperCase[k] = s[i]
     THEN LowerCase[CHOOSE k \in DOMAIN UpperCase : UpperCase[k] = s[i]]
     ELSE s[i]]

\* the concatenation of the sequences in a sequence
RECURSIVE Flatten(_)
Flatten(ss) == IF ss = <<>> THEN <<>> ELSE Head(ss) \o Flatten(Tail(ss))

\* row[name] (lines 673-680): [ok, v], ok = FALSE for the KeyError
Column(df, row, name) ==
  IF name.t = "str" /\ name.v = df.desc_col THEN [ok |-> TRUE, v |-> row.desc]
  ELSE IF name.t = "str" /\ name.v = df.price_col THEN [ok |-> TRUE, v |-> row.price]
  ELSE [ok |-> FALSE, v |-> JNull]

\* lines 675-678: [ok, v] with v the cell price_val, ok = FALSE for an exception
AiPrice(price_val) ==
  IF price_val.t = "str"
  THEN LET f == PyFloat(Strip(Replace(Replace(Replace(price_val.v, Euro, <<>>),
                                              ".", <<>>), ",", <<".">>)))
       IN  [ok |-> f.ok, v |-> JNum(f.v)]
  ELSE [ok |-> TRUE, v |-> price_val]

\* lines 672-687, the body of the loop over the rows on the AI path: <<>> for
\* a row the bare except passes over, else <<the dict appended>>
ImportRowAi(df, row, mapping) ==
  LET col_desc  == Get(mapping, "description", JNull)
      col_price == Get(mapping, "price", JNull)
      col_unit  == Get(mapping, "unit", JNull)
      pc        == Column(df, row, col_price)
      dc        == Column(df, row, col_desc)
      uc        == Column(df, row, col_unit)
      price_val == AiPrice(pc.v)
  IN  IF pc.ok /\ price_val.ok /\ dc.ok /\ (PyBool(col_unit) => uc.ok)
      THEN <<[description |-> PyStr(dc.v),
              unit        |-> IF PyBool(col_unit) /\ NotNa(uc.v) THEN PyStr(uc.v) ELSE <<>>,
              price_min   |-> price_val.v,
              price_max   |-> price_val.v,
              category    |-> "AI Excel Import"]>>
      ELSE <<>>

aBeschreibung == <<"b", "e", "s", "c", "h", "r", "e", "i", "b", "u", "n", "g">>
aDescription  == <<"d", "e", "s", "c", "r", "i", "p", "t", "i", "o", "n">>
aText         == <<"t", "e", "x", "t">>
aArtikel      == <<"a", "r", "t", "i", "k", "e", "l">>
aPreis        == <<"p", "r", "e", "i", "s">>
aPrice        == <<"p", "r", "i", "c", "e">>
aBetrag       == <<"b", "e", "t", "r", "a", "g">>
aEp           == <<"e", "p">>

\* row.get(name) after line 696 has renamed the columns
RowGet(df, row, name) ==
  IF name = Strip(Lower(df.desc_col)) THEN row.desc
  ELSE IF name = Strip(Lower(df.price_col)) THEN row.price
  ELSE JNull

\* lines 697-716, the body of the loop over the rows on the fallback path
ImportRowFallback(df, row) ==
  LET desc  == PyOr(RowGet(df, row, aBeschreibung),
                 PyOr(RowGet(df, row, aDescription),
                   PyOr(RowGet(df, row, aText), RowGet(df, row, aArtikel))))
      price == PyOr(RowGet(df, row, aPreis),
                 PyOr(RowGet(df, row, aPrice),
                   PyOr(RowGet(df, row, aBetrag), RowGet(df, row, aEp))))
      f     == PyFloat(Strip(Replace(Replace(PyStr(price), ",", <<".">>), Euro, <<>>)))
      price_val == IF f.ok THEN f.v ELSE 0
  IN  IF PyBool(desc) /\ NotNa(price)
      THEN <<[description |-> PyStr(desc),
              unit        |-> <<>>,
              price_min   |-> JNum(price_val),
              price_max   |-> JNum(price_val),
              category    |-> "Import"]>>
      ELSE <<>>

\* lines 659-716: out[i] is what row i of df_import contributed to
\* mapped_data, <<>> or <<dict>>; mapping is what
\* identify_excel_columns_with_ai returned
ExcelImport(df_import, use_ai_import, enabled, mapping) ==
  LET rows    == df_import.rows
      ai_path == /\ use_ai_import /\ enabled
                 /\ PyBool(mapping)
                 /\ PyBool(Get(mapping, "description", JNull))
                 /\ PyBool(Get(mapping, "price", JNull))
      ai_out  == [i \in DOMAIN rows |->
                    IF ai_path THEN ImportRowAi(df_import, rows[i], mapping) ELSE <<>>]
      out     == IF Flatten(ai_out) # <<>> THEN ai_out
                 ELSE [i \in DOMAIN rows |-> ImportRowFallback(df_import, rows[i])]
  IN  [out |-> out, mapped_data |-> Flatten(out),
       ai_rows       |-> Flatten(ai_out),
       fallback_rows |-> IF Flatten(ai_out) # <<>> THEN <<>> ELSE Flatten(out)]

(***************************************************************************)
(* The PDF import of tab_datenbank_verwalten (src/app.py 722-805) and      *)
(* extract_pricelist_from_text_ai (168-214).                               *)
(***************************************************************************)

\* lines 197-207 and 208-214: the list extract_pricelist_from_text_ai
\* returns for the answer resp; [] where the call or json.loads raises
extract_pricelist_from_text_ai(resp) ==
  IF resp.kind # "json" THEN <<>>
  ELSE LET data == resp.json
       IN  IF data.t = "list" THEN data.v
           ELSE IF data.t = "dict"
             THEN IF HasKey(data, "items") /\ Get(data, "items", JNull).t = "list"
                  THEN Get(data, "items", JNull).v
                  ELSE LET lists == SelectSeq([i \in DOMAIN data.v |-> data.v[i][2]],
                                              LAMBDA x : x.t = "list")
                       IN  IF lists # <<>> THEN lists[1].v ELSE <<>>
           ELSE <<>>

\* lines 749-758, the body of the loop over items: <<>> where the bare
\* except passes over the item (no dict, or a price float() refuses).  The
\* answers of the model hold text under 'description' and 'unit'.
PdfAiRow(item) ==
  IF item.t = "dict" /\ ToFloat(Get(item, "price", JNum(0))).ok
  THEN <<[description |-> Get(item, "description", JStr(<<>>)).v,
          unit        |-> Get(item, "unit", JStr(<<>>)).v,
          price_min   |-> JNum(ToFloat(Get(item, "price", JNum(0))).v),
          price_max   |-> JNum(ToFloat(Get(item, "price", JNum(0))).v),
          category    |-> "AI PDF Import"]>>
  ELSE <<>>

\* line 741: the page goes to extract_pricelist_from_text_ai
PdfSends(page_text) == Len(page_text) > MinPageLen

\* [a-zA-Z]
AsciiLetter == Letter \ {"^2", "^3"}

\* line 779: re.search(r'^(.*?)\s+(\d+[\.,]\d{2})\s*([a-zA-Z€/].*)?$', line).
\* Group 1 is lazy: the match is the one with the shortest group 1.  After
\* it come blanks, a run of digits (the whole run, since a separator must
\* follow), the separator, two digits, blanks, and then the end of the line
\* or a letter, the euro sign or a slash with anything behind it.
PdfMatchAt(line, k) ==
  LET w  == Run(line, k + 1, Space)
      d  == Run(line, k + 1 + w, Digit)
      at == k + w + d + 1                     \* place of the separator
      w2 == Run(line, at + 3, Space)
      q  == at + 3 + w2                       \* place where group 3 starts
  IN  /\ w >= 1 /\ d >= 1
      /\ at + 2 <= Len(line)
      /\ line[at] \in {".", ","}
      /\ line[at + 1] \in Digit /\ line[at + 2] \in Digit
      /\ (q > Len(line) \/ line[q] \in AsciiLetter \cup {Euro, "/"})

PdfMatch(line) ==
  IF \E k \in 0..Len(line) : PdfMatchAt(line, k)
  THEN LET k  == CHOOSE k \in 0..Len(line) :
                   PdfMatchAt(line, k) /\ \A h \in 0..(k - 1) : ~PdfMatchAt(line, h)
           w  == Run(line, k + 1, Space)
           d  == Run(line, k + 1 + w, Digit)
           at == k + w + d + 1
           q  == at + 3 + Run(line, at + 3, Space)
       IN  [ok |-> TRUE, g1 |-> SubSeq(line, 1, k),
            g2 |-> SubSeq(line, k + w + 1, at + 2),
            g3 |-> From(line, q)]
  ELSE [ok |-> FALSE, g1 |-> <<>>, g2 |-> <<>>, g3 |-> <<>>]

\* lines 781-799: what the stripped line gives for its match
PdfMatchedRow(line, match) ==
  LET desc      == Strip(match.g1)
      price_str == Replace(Replace(match.g2, ".", <<>>), ",", <<".">>)
      unit      == Strip(Replace(Replace(match.g3, Euro, <<>>), "/", <<>>))
      price_val == PyFloat(price_str)
  IN  IF ~match.ok \/ ~price_val.ok THEN <<>>
      ELSE IF Len(desc) > 3 /\ 10 < price_val.v /\ price_val.v < 10000000
        THEN <<[description |-> desc,
                unit        |-> unit,
                price_min   |-> JNum(price_val.v),
                price_max   |-> JNum(price_val.v),
                category    |-> "PDF Standard Import"]>>
      ELSE <<>>

\* lines 773-799, the body of the loop over the lines: <<>> or <<dict>>
PdfRegexRow(raw) ==
  Eager(LAMBDA line :
          IF Len(line) < 5 THEN <<>>
          ELSE Eager(LAMBDA match : PdfMatchedRow(line, match), PdfMatch(line)),
        Strip(raw))

\* lines 772-799: the regex fallback over full_text
PdfRegexRows(pages_text) ==
  Eager(LAMBDA lines :
          Eager(LAMBDA rows : Flatten(rows),
                [i \in DOMAIN lines |-> PdfRegexRow(lines[i])]),
        Split(Join(pages_text, "\n"), "\n"))

\* lines 739-759, the loop over the pages on the AI path: the pages sent,
\* in order, and the rows their answers give
PdfAiLoop(pages_text, answers) ==
  Eager(LAMBDA asked :
          [requests |-> asked,
           ai_rows  |->
             Eager(LAMBDA per_page : Flatten(per_page),
                   [k \in DOMAIN asked |->
                      Eager(LAMBDA page_items :
                              Eager(LAMBDA rows : Flatten(rows),
                                    [n \in DOMAIN page_items |-> PdfAiRow(page_items[n])]),
                            extract_pricelist_from_text_ai(answers[asked[k]]))])],
        SelectSeq([i \in DOMAIN pages_text |-> i], LAMBDA i : PdfSends(pages_text[i])))

\* PdfImport with the regex fallback run on every import
PdfImportBothStrategies(pages_text, use_ai_import, enabled, answers) ==
  Eager(LAMBDA ai :
          Eager(LAMBDA fallback_rows :
                  [requests |-> ai.requests, ai_rows |-> ai.ai_rows,
                   fallback_rows |-> fallback_rows,
                   mapped_data |-> ai.ai_rows \o fallback_rows],
                PdfRegexRows(pages_text)),
        IF use_ai_import /\ enabled THEN PdfAiLoop(pages_text, answers)
        ELSE [requests |-> <<>>, ai_rows |-> <<>>])

\* lines 733-800: answers[i] is what the collaborator answers for page i if
\* it is asked; requests are the pages it is asked for, in order
PdfImport(pages_text, use_ai_import, enabled, answers) ==
  Eager(LAMBDA ai :
          LET mapped_data == ai.ai_rows                         \* at line 768
              ai_failed   == use_ai_import /\ enabled /\ mapped_data = <<>>
          IN  Eager(LAMBDA fallback_rows :
                      [requests |-> ai.requests, ai_rows |-> ai.ai_rows,
                       fallback_rows |-> fallback_rows,
                       mapped_data |-> ai.ai_rows \o fallback_rows],
                    IF mapped_data = <<>> \/ ai_failed \/ ~use_ai_import
                    THEN PdfRegexRows(pages_text) ELSE <<>>),
        IF use_ai_import /\ enabled THEN PdfAiLoop(pages_text, answers)
        ELSE [requests |-> <<>>, ai_rows |-> <<>>])

\* the id SQLite gives the next row appended to the table prices
NextId(db) ==
  IF db = <<>> THEN 1
  ELSE 1 + (CHOOSE m \in {db[i].id.v : i \in DOMAIN db} :
              \A i \in DOMAIN db : db[i].id.v <= m)

\* line 718: df_db.to_sql('prices', conn, if_exists='append', index=False).
\* df_db has no column id: SQLite fills it in where id is the key of the
\* table, and leaves it NULL where it is an ordinary column.
AppendRows(db, mapped_data, key) ==
  db \o [k \in DOMAIN mapped_data |->
           [id          |-> IF key THEN JNum(NextId(db) + k - 1) ELSE JNull,
            description |-> mapped_data[k].description,
            unit        |-> mapped_data[k].unit,
            price_min   |-> mapped_data[k].price_min,
            price_max   |-> mapped_data[k].price_max,
            category    |-> mapped_data[k].category]]

hBeschreibung == <<"B", "e", "s", "c", "h", "r", "e", "i", "b", "u", "n", "g">>
hKurztext     == <<"K", "u", "r", "z", "t", "e", "x", "t">>
hPreis        == <<"P", "r", "e", "i", "s", " ">>
hKosten       == <<"K", "o", "s", "t", "e", "n">>

cBeton     == JStr(<<"B", "e", "t", "o", "n">>)
cThousands == JStr(<<"1", ".", "2", "3", "4", ",", "5", "6", " ", "EUR">>)
cComma     == JStr(<<"1", "2", ",", "5", "0">>)
cAnfrage   == JStr(<<"a", "u", "f", " ", "A", "n", "f", "r", "a", "g", "e">>)

DescCells  == {cBeton, JNaN}
PriceCells == {cThousands, cComma, cAnfrage, JNum(1250), JNum(0), JNaN}

\* price lists: headers the fallback knows, or headers it does not know
ImportTables ==
  {[desc_col |-> h[1], price_col |-> h[2], rows |-> rs] :
     h  \in {<<hBeschreibung, hPreis>>, <<hKurztext, hKosten>>},
     rs \in SeqsUpTo([desc : DescCells, price : PriceCells], MaxImportRows)}

\* what identify_excel_columns_with_ai can return for df: None, the columns
\* of df, no price column, columns df does not have
Mappings(df) ==
  <<JNull,
    JDict(<< <<"description", JStr(df.desc_col)>>, <<"price", JStr(df.price_col)>>,
             <<"unit", JNull>> >>),
    JDict(<< <<"description", JStr(df.desc_col)>>, <<"price", JNull>> >>),
    JDict(<< <<"description", JStr(aText)>>, <<"price", JStr(aPreis)>> >>)>>

\* lines of a price list in a PDF file
lpBeton == <<"B", "e", "t", "o", "n", " ", "C", "2", "5", "/", "3", "0", " ", "1", "4", "5", ",", "0", "0">>
lpDot   == <<"S", "o", "m", "e", " ", "T", "e", "x", "t", " ", "1", "2", ".", "5", "0", " ", Euro, "/", "m", "2">>
lpCent  == <<"K", "i", "e", "s", " ", "0", ",", "0", "5">>
lpThousands == <<"Z", "e", "m", "e", "n", "t", " ", "1", ".", "2", "3", "4", ",", "5", "6", " ", "t">>
lpAbc   == <<"A", "b", "c", " ", "1", "2", ",", "0", "0">>

\* pages of a price list: one character more than MinPageLen, exactly
\* MinPageLen characters, a short page, a page of two lines, a blank page
ppBeton == lpBeton \o Pad(MinPageLen + 1 - Len(lpBeton))
ppDot   == lpDot \o Pad(MinPageLen - Len(lpDot))
ppTwo   == lpThousands \o <<"\n">> \o lpAbc \o Pad(MinPageLen - Len(lpThousands) - Len(lpAbc))

PdfPageSet == {ppBeton, ppDot, lpCent, ppTwo, pgBlank}

MaxPdfPages == 1

\* PDF files of at least one and at most maxPages pages
PdfDocuments(maxPages) == SeqsUpTo(PdfPageSet, maxPages) \ {<<>>}

piBeton ==       \* {"description":"Beton C25/30","price":145.0,"unit":"m3"}
  JDict(<< <<"description", JStr(<<"B", "e", "t", "o", "n", " ", "C", "2", "5", "/", "3", "0">>)>>,
           <<"price", JNum(14500)>>, <<"unit", JStr(<<"m", "3">>)>> >>)
piKies ==        \* {"description":"Kies","price":"9,00"}
  JDict(<< <<"description", JStr(dKies)>>, <<"price", JStr(<<"9", ",", "0", "0">>)>> >>)
piSand ==        \* {"description":"Sand","price":"12.5","unit":"t"}
  JDict(<< <<"description", JStr(<<"S", "a", "n", "d">>)>>,
           <<"price", JStr(<<"1", "2", ".", "5">>)>>, <<"unit", JStr(<<"t">>)>> >>)
piNoPrice ==     \* {"description":"Zement"}
  JDict(<< <<"description", JStr(<<"Z", "e", "m", "e", "n", "t">>)>> >>)

\* what the collaborator may answer to the request for one page
PdfResponses ==
  << [kind |-> "status", code |-> 403],
     [kind |-> "badjson"],
     Json(JList(<<piBeton>>)),
     Json(JDict(<< <<"notes", JList(<<piSand>>)>>,
                   <<"items", JList(<<piBeton, piNoPrice>>)>> >>)),
     Json(piBeton),
     Json(JList(<<JStr(<<"x">>), piKies, piSand>>)) >>

InitImport ==
  /\ \/ uploaded_file \in {<<[ext |-> ".xlsx", content |-> df]>> : df \in ImportTables}
     \/ uploaded_file \in {<<[ext |-> ".pdf", content |-> pages_text]>> :
                              pages_text \in PdfDocuments(MaxPdfPages)}
  /\ id_is_key = TRUE
  /\ ai_enabled \in BOOLEAN
  /\ IdleMatch
  /\ NewSession
  /\ IdleRegex
  /\ IdleAi
  /\ IdleMeta

\* "Import starten" with an Excel file (lines 649-719 and 801-809).  The
\* check box is disabled and unchecked while AI is not enabled (line 647).
ImportExcel ==
  /\ uploaded_file # <<>>
  /\ uploaded_file[1].ext = ".xlsx"
  /\ \E use_ai_import \in (IF ai_enabled THEN BOOLEAN ELSE {FALSE}) :
     \E m \in (IF use_ai_import THEN 1..4 ELSE {1}) :
       LET df_import == uploaded_file[1].content
           mapping   == Mappings(df_import)[m]
       IN  \E x \in {ExcelImport(df_import, use_ai_import, ai_enabled, mapping)} :
             /\ Len(price_db) + Len(x.mapped_data) <= MaxCatalog
             /\ price_db' = AppendRows(price_db, x.mapped_data, id_is_key)
             /\ run' = <<[ext |-> ".xlsx", df_import |-> df_import,
                          use_ai_import |-> use_ai_import,
                          out |-> x.out, mapped_data |-> x.mapped_data,
                          ai_rows |-> x.ai_rows, fallback_rows |-> x.fallback_rows]>>
  /\ UNCHANGED <<match_in, match_out, ai_enabled, uploaded_file, metaVars, id_is_key, lvVars, aiVars,
                 step, extracted_items, results_df, nav_shown, file_name, session_log,
                 total, saved>>

\* "Import starten" with a PDF file (lines 649-654, 722-809)
ImportPdf ==
  /\ uploaded_file # <<>>
  /\ uploaded_file[1].ext = ".pdf"
  /\ \E use_ai_import \in (IF ai_enabled THEN BOOLEAN ELSE {FALSE}) :
       LET pages_text == uploaded_file[1].content
       IN  \E answers \in [DOMAIN pages_text -> DOMAIN PdfResponses] :
             \* only a page that is sent is answered; 1 stands in for the others
             /\ \A i \in DOMAIN pages_text :
                  (use_ai_import /\ PdfSends(pages_text[i])) \/ answers[i] = 1
             /\ \E x \in {PdfImport(pages_text, use_ai_import, ai_enabled,
                                    [i \in DOMAIN pages_text |-> PdfResponses[answers[i]]])} :
                  /\ Len(price_db) + Len(x.mapped_data) <= MaxCatalog
                  /\ price_db' = AppendRows(price_db, x.mapped_data, id_is_key)
                  /\ run' = <<[ext |-> ".pdf", pages_text |-> pages_text,
                               use_ai_import |-> use_ai_import,
                               requests |-> x.requests, mapped_data |-> x.mapped_data,
                               ai_rows |-> x.ai_rows, fallback_rows |-> x.fallback_rows]>>
  /\ UNCHANGED <<match_in, match_out, ai_enabled, uploaded_file, metaVars, id_is_key, lvVars, aiVars,
                 step, extracted_items, results_df, nav_shown, file_name, session_log,
                 total, saved>>

\* "Alles loeschen" (lines 831-844)
DeleteAll ==
  /\ uploaded_file # <<>>
  /\ price_db # <<>>
  /\ price_db' = <<>>
  /\ run' = <<>>
  /\ UNCHANGED <<match_in, match_out, ai_enabled, uploaded_file, metaVars, id_is_key, lvVars, aiVars,
                 step, extracted_items, results_df, nav_shown, file_name, session_log,
                 total, saved>>

dSand == <<"S", "a", "n", "d">>

\* the row a user adds in the data editor of line 814 (num_rows="dynamic"):
\* description and price typed in, the other cells left empty
AddedRow ==
  [id |-> JNull, description |-> dSand, unit |-> <<>>, price_min |-> JNum(900),
   price_max |-> JNull, category |-> ""]

\* the tables the data editor can return for the loaded table db: db itself,
\* db with a row added, db with a row deleted
Edited(db) ==
  {db}
    \cup (IF Len(db) < MaxCatalog THEN {Append(db, AddedRow)} ELSE {})
    \cup {SubSeq(db, 1, i - 1) \o From(db, i + 1) : i \in DOMAIN db}

\* "Aenderungen speichern" (lines 818-828):
\* edited.to_sql('prices', conn, if_exists='replace', index=False) drops the
\* table and creates it again from the columns of edited, id among them as
\* an ordinary column
SaveTable ==
  /\ \E edited \in Edited(price_db) : price_db' = edited
  /\ id_is_key' = FALSE
  /\ run' = <<>>
  /\ UNCHANGED <<match_in, match_out, ai_enabled, uploaded_file, metaVars, lvVars, aiVars,
                 step, extracted_items, results_df, nav_shown, file_name, session_log,
                 total, saved>>

NextImport == ImportExcel \/ ImportPdf \/ DeleteAll \/ SaveTable

SpecImport == InitImport /\ [][NextImport]_vars

(***************************************************************************)
(* Properties of find_best_match and of the status icon.                   *)
(***************************************************************************)

\* C3: every result of find_best_match has price > 0 exactly when it has a
\* catalog link (price_id # -1).
C3_PriceIffCatalogLink ==
  match_out # <<>>
    => (match_out[1].match.price > 0 <=> match_out[1].match.price_id # -1)

\* the confidence tier of a score
Tier(score) ==
  IF score < LowScore THEN "red"
  ELSE IF score <= HighScore THEN "yellow"
  ELSE "green"

\* C4: the status icon of a row is the tier of the match score, whatever
\* catalog row the score belongs to.
C4_StatusIsTierOfScore ==
  match_out # <<>> => match_out[1].row.Status = Tier(match_out[1].match.score)

\* the highest score of a catalog's descriptions
MaxScore(db, score) ==
  CHOOSE m \in {score[db[i].description] : i \in DOMAIN db} :
    \A i \in DOMAIN db : score[db[i].description] <= m

\* the first catalog row, in catalog order, that has the highest score
FirstMax(db, score) ==
  CHOOSE i \in DOMAIN db :
    /\ score[db[i].description] = MaxScore(db, score)
    /\ \A j \in 1..(i - 1) : score[db[j].description] # MaxScore(db, score)

\* C11: the result of find_best_match is the no-match sentinel (price 0,
\* price_id -1, the no-match text, no unit) for an empty catalog and whenever
\* the highest score is below 50, whatever the catalog rows are; with a
\* highest score of 50 or more it carries description and unit of a catalog
\* row with that score together with the row's price_min and id (0 and -1
\* standing for a cell that holds no number).
C11_SentinelOrCatalogEntry ==
  match_out # <<>> =>
    LET m  == match_out[1].match
        sc == match_in[1].score
    IN  /\ price_db = <<>> => m = NoMatch(0)
        /\ (price_db # <<>> /\ MaxScore(price_db, sc) < 50)
             => /\ m.price = 0
                /\ m.price_id = -1
                /\ m.description = NoMatchText
                /\ m.unit = <<>>
        /\ (price_db # <<>> /\ MaxScore(price_db, sc) >= 50)
             => \E i \in DOMAIN price_db :
                  /\ sc[price_db[i].description] = MaxScore(price_db, sc)
                  /\ m.description = price_db[i].description
                  /\ m.unit = price_db[i].unit
                  /\ m.price = (IF price_db[i].price_min.t = "num"
                                THEN price_db[i].price_min.v ELSE 0)
                  /\ m.price_id = (IF price_db[i].id.t = "num"
                                   THEN price_db[i].id.v ELSE -1)

\* C11: a catalog of two priced rows whose best score is 49 has given the
\* sentinel
C11_BelowCutoffOnPricedCatalog ==
  /\ match_out # <<>>
  /\ Len(price_db) = 2
  /\ \A i \in DOMAIN price_db :
       price_db[i].price_min.t = "num" /\ price_db[i].price_min.v > 0
         /\ price_db[i].id.t = "num"
  /\ MaxScore(price_db, match_in[1].score) = 49
  /\ match_out[1].match.price_id = -1
  /\ match_out[1].match.price = 0

\* C17: the result of find_best_match carries the highest score of the
\* catalog, and when that score reaches the cutoff it is built from the first
\* row, in catalog order, that has this score.
C17_FirstMaximumWins ==
  (match_out # <<>> /\ price_db # <<>>) =>
    LET m   == match_out[1].match
        sc  == match_in[1].score
        row == price_db[FirstMax(price_db, sc)]
    IN  /\ m.score = MaxScore(price_db, sc)
        /\ m.score >= LowScore
             => /\ m.description = row.description
                /\ m.unit = row.unit
                /\ m.price = SafePrice(row)
                /\ m.price_id = SafeId(row)

\* C17: two rows of different descriptions tie at a score above the cutoff
\* and the result is the first row
C17_TieGivesFirstRow ==
  /\ match_out # <<>>
  /\ Len(price_db) = 2
  /\ price_db[1].description # price_db[2].description
  /\ match_in[1].score[price_db[1].description] = 90
  /\ match_in[1].score[price_db[2].description] = 90
  /\ price_db[1].id.t = "num" /\ price_db[1].id.v = 2
  /\ price_db[2].id.t = "num" /\ price_db[2].id.v = 1
  /\ match_out[1].match.price_id = 2
  /\ match_out[1].match.description = price_db[1].description

(***************************************************************************)
(* Properties of analyze_with_azure_ai.                                    *)
(***************************************************************************)
IsPrefix(a, b) == Len(a) <= Len(b) /\ SubSeq(b, 1, Len(a)) = a

\* the page numbers line 244 lets through, in document order
RECURSIVE EligibleFrom(_, _)
EligibleFrom(pages, i) ==
  IF i > Len(pages) THEN <<>>
  ELSE (IF AiSkips(pages[i]) THEN <<>> ELSE <<i>>) \o EligibleFrom(pages, i + 1)

EligiblePages(pages) == EligibleFrom(pages, 1)

\* C2: a failure on a page (malformed JSON, status error, other exception)
\* leaves a log entry for that page and does not end the run: at the return
\* every eligible page has been sent, and no step removes an item or a log
\* entry collected before.
C2_PageFailureLoggedRunGoesOn ==
  /\ [](\A k \in DOMAIN responses :
          responses[k].kind # "json"
            => \E l \in DOMAIN processing_log : processing_log[l].page = requests[k])
  /\ []((ai_pc = "done" /\ ai_enabled) => requests = EligiblePages(ai_pages))
  /\ [][IsPrefix(all_items, all_items')
          /\ IsPrefix(processing_log, processing_log')]_vars

\* a failed page was followed by a page that was still sent and gave items
C2_FailureThenLaterPage ==
  /\ ai_pc = "done"
  /\ Len(requests) = 2
  /\ responses[1].kind = "badjson"
  /\ responses[2].kind = "json"
  /\ Len(processing_log) = 1
  /\ Len(all_items) > 0

\* the value line 275 passes to float()
RawQuantity(item) == Or(Get(item, "menge", JNum(0)), Get(item, "quantity", JNum(0)))

\* the number a numeric-looking value stands for, the decimal comma included
NumericLooking(j) ==
  CASE j.t = "num" -> [ok |-> TRUE, v |-> j.v]
    [] j.t = "str" -> PyFloat(Replace(j.v, ",", <<".">>))
    [] OTHER       -> [ok |-> FALSE, v |-> 0]

AllDicts(l) == \A i \in DOMAIN l : l[i].t = "dict"

JEq(a, b) == a.t = b.t /\ a.v = b.v

\* C8: an answered item with a non-empty position code and a numeric-looking
\* quantity (a number, "2.5", "3,0") is returned with that quantity.
C8_NumericLookingQuantityCoerced ==
  \A k \in DOMAIN responses :
    (responses[k].kind = "json" /\ AllDicts(AiItemsList(responses[k].json)))
      => \A n \in DOMAIN AiItemsList(responses[k].json) :
           LET item == AiItemsList(responses[k].json)[n]
               oz   == Get(item, "oz", JStr(<<>>))
               q    == NumericLooking(RawQuantity(item))
           IN  (Truthy(oz) /\ q.ok)
                 => \E j \in DOMAIN all_items :
                      /\ JEq(all_items[j].oz, oz)
                      /\ all_items[j].quantity = q.v

\* C9: every item analyze_with_azure_ai returns has a position code that is
\* present and not empty.
C9_ReturnedItemsHaveCode ==
  \A j \in DOMAIN all_items :
    /\ all_items[j].oz.t # "null"
    /\ all_items[j].oz.t = "str" => Len(all_items[j].oz.v) > 0
    /\ all_items[j].oz.t = "num" => all_items[j].oz.v # 0

\* an answer carried items without a position code next to one with a code
C9_ItemWithoutCodeAnswered ==
  /\ ai_pc = "done"
  /\ Len(all_items) > 0
  /\ \E k \in DOMAIN responses :
       /\ responses[k].kind = "json"
       /\ AllDicts(AiItemsList(responses[k].json))
       /\ \E n \in DOMAIN AiItemsList(responses[k].json) :
            ~Truthy(Get(AiItemsList(responses[k].json)[n], "oz", JStr(<<>>)))

\* the level of the one log entry that names the page, "" if none does
LevelFor(log, page) ==
  IF \E l \in DOMAIN log : log[l].page = page
  THEN log[CHOOSE l \in DOMAIN log : log[l].page = page].level
  ELSE ""

\* C13: for every answered request, a status error 403 has left a log entry
\* of level warning naming the page, and any other status error or other
\* exception a log entry of level error naming the page, no page being
\* named twice; and the run has not stopped there: at the return every
\* eligible page has been requested.
C13_LevelByErrorKind ==
  /\ \A k \in DOMAIN responses :
       /\ (responses[k].kind = "status" /\ responses[k].code = 403)
            => LevelFor(processing_log, requests[k]) = "warning"
       /\ (responses[k].kind = "status" /\ responses[k].code # 403)
            => LevelFor(processing_log, requests[k]) = "error"
       /\ responses[k].kind = "exception"
            => LevelFor(processing_log, requests[k]) = "error"
  /\ \A l, m \in DOMAIN processing_log :
       processing_log[l].page = processing_log[m].page => l = m
  /\ (ai_pc = "done" /\ ai_enabled)
       => Len(requests) = Len(EligiblePages(ai_pages))

\* C13: a page failed with status 403 and the next page, requested all the
\* same, with status 500
C13_WarningThenErrorThenNextPage ==
  /\ ai_pc = "done"
  /\ Len(responses) = 2
  /\ responses[1].kind = "status" /\ responses[1].code = 403
  /\ responses[2].kind = "status" /\ responses[2].code = 500
  /\ processing_log = <<LogEntry("warning", "api", requests[1]),
                        LogEntry("error", "api", requests[2])>>
  /\ requests[1] < requests[2]

\* s is strictly increasing
Increasing(s) == \A a, b \in DOMAIN s : a < b => s[a] < s[b]

\* C14: pages are handled one at a time in document order.  At every moment
\* at most one request is unanswered; the requests made and the pages named
\* in the log are in increasing page order; a request is made only when
\* every earlier request has been answered and its answer handled, and it is
\* for a later page than all of them; and the log entry for an answer is
\* written before the next request.
C14_OnePageAtATime ==
  /\ [](Len(requests) - Len(responses) \in {0, 1})
  /\ [](Increasing(requests))
  /\ [](Increasing([l \in DOMAIN processing_log |-> processing_log[l].page]))
  /\ [][requests' # requests
          => /\ Len(responses) = Len(requests)
             /\ \E page \in (ai_i + 1)..Len(ai_pages) :
                  requests' = Append(requests, page)
             /\ UNCHANGED <<all_items, processing_log, responses>>]_vars
  /\ [][processing_log' # processing_log
          => \/ ~ai_enabled
             \/ /\ Len(requests) = Len(responses) + 1
                /\ Len(responses') = Len(requests')
                /\ processing_log' =
                     Append(processing_log,
                            [level |-> processing_log'[Len(processing_log')].level,
                             kind  |-> processing_log'[Len(processing_log')].kind,
                             page  |-> requests[Len(requests)]])]_vars

\* C14: the second request is out, made after the failure of the first was
\* logged
C14_SecondRequestAfterFirstHandled ==
  /\ ai_pc = "wait"
  /\ requests = <<1, 2>>
  /\ Len(responses) = 1
  /\ responses[1].kind = "exception"
  /\ processing_log = <<LogEntry("error", "unexpected", 1)>>

(***************************************************************************)
(* Properties of extract_lv_items.                                         *)
(***************************************************************************)

\* C6: every item in the output of extract_lv_items has quantity > 0.
C6_OutputQuantityPositive ==
  lv_pc = "done" => \A i \in DOMAIN items : items[i].quantity > 0

\* The unit the quantity line names: the alternatives m2 and m3 of the unit
\* group where they stand, otherwise the run of letters.
NamedUnit(line) ==
  LET q    == QtyMatch(line)
      w0   == Run(line, 1, Space)
      n    == Run(line, w0 + 1, NumChar)
      w1   == Run(line, w0 + n + 1, Space)
      at   == w0 + n + w1 + 1
      two  == SubSeq(line, at, at + 1)
  IN  IF two \in {<<"m", "2">>, <<"m", "3">>} THEN two ELSE q.unit

\* a line that closes the open item: it matches the quantity/unit pattern,
\* holds no "von" and its number reads as a number
IsQuantityLine(raw) ==
  LET line == Strip(raw)
  IN  /\ line # <<>>
      /\ ~OzMatch(line).ok
      /\ QtyMatch(line).ok
      /\ ~Contains(line, kwVon)
      /\ GermanFloat(QtyMatch(line).num).ok

\* C7: while an item is open, a quantity/unit line emits at once exactly one
\* item with the position code and description of the open item, the
\* quantity read in German notation and the unit named on the line.
C7_QuantityLineEmitsItem ==
  [][(lv_pc = "loop" /\ lv_lines # <<>> /\ current_item # <<>>
        /\ IsQuantityLine(Head(lv_lines)))
      => LET line == Strip(Head(lv_lines))
         IN  /\ current_item' = <<>>
             /\ items' = Append(items,
                  [oz          |-> current_item[1].oz,
                   description |-> current_item[1].description,
                   quantity    |-> GermanFloat(QtyMatch(line).num).v,
                   unit        |-> NamedUnit(line)])]_vars

\* C7, the example of the specification: the lines "01.01.0010 Beton" and
\* "3,50 m3" give one item with quantity 3.5 and unit "m3".
C7_ExampleBeton ==
  (lv_pc = "done" /\ LvLines(lv_pages) = <<lnOz1, lnQty>>)
    => items = <<[oz |-> <<"0", "1", ".", "0", "1", ".", "0", "0", "1", "0">>,
                  description |-> <<"B", "e", "t", "o", "n">>,
                  quantity |-> 350, unit |-> <<"m", "3">>]>>

\* C20: while an item is open, a line that holds "von" (and is no position
\* line) never closes the item, even when it matches the quantity/unit
\* pattern: nothing is emitted, the item stays open with quantity 0, and the
\* line is handled as a description line (appended to the description
\* unless it holds "Datum:" or "Projekt:").
C20_VonLineKeepsItemOpen ==
  [][(/\ lv_pc = "loop" /\ lv_lines # <<>> /\ current_item # <<>>
      /\ Contains(Strip(Head(lv_lines)), kwVon)
      /\ ~OzMatch(Strip(Head(lv_lines))).ok)
     => LET line == Strip(Head(lv_lines))
        IN  /\ items' = items
            /\ current_item' =
                  <<[oz          |-> current_item[1].oz,
                     description |->
                       IF Contains(line, kwDatum) \/ Contains(line, kwProjekt)
                       THEN current_item[1].description
                       ELSE current_item[1].description \o <<" ">> \o line,
                     quantity    |-> 0,
                     unit        |-> <<>>]>>]_vars

\* C20: "1 von 2" matches the quantity/unit pattern and has been read while
\* the item of "01.01.0010 Beton" was open.
C20_VonLineReadAsDescription ==
  /\ QtyMatch(lnVon).ok
  /\ GermanFloat(QtyMatch(lnVon).num).ok
  /\ items = <<>>
  /\ current_item =
       <<[oz |-> <<"0", "1", ".", "0", "1", ".", "0", "0", "1", "0">>,
          description |-> <<"B", "e", "t", "o", "n", " ">> \o lnVon,
          quantity |-> 0, unit |-> <<>>]>>

\* C21: a line that holds "Datum:" or "Projekt:" contributes no text to the
\* description of any item and changes nothing else in the state of the
\* extractor: the items and the open item are as they were before the line.
C21_HeaderLineChangesNothing ==
  [][(/\ lv_pc = "loop" /\ lv_lines # <<>>
      /\ (Contains(Head(lv_lines), kwDatum) \/ Contains(Head(lv_lines), kwProjekt)))
     => (items' = items /\ current_item' = current_item)]_vars

\* C22: every item extract_lv_items returns for a list of pages is built
\* from the text of one page: it is an item the extractor returns for that
\* page alone, so no item opened on one page is completed with lines of a
\* later page.
C22_ItemsFromOnePage ==
  lv_pc = "done" =>
    \A i \in DOMAIN items :
      \E p \in DOMAIN lv_pages :
        \E j \in DOMAIN extract_lv_items(<<lv_pages[p]>>) :
          items[i] = extract_lv_items(<<lv_pages[p]>>)[j]

\* C24: whenever an item is open, at the start of a line or at the end of
\* the input, its quantity is 0 and its unit is empty; so neither the flush
\* at a new position line nor the flush at the end of the input adds an
\* item: every step that adds an item is the step of a quantity line and
\* adds the item that was open.
C24_OpenItemHasNoQuantity ==
  /\ [](current_item # <<>>
          => (current_item[1].quantity = 0 /\ current_item[1].unit = <<>>))
  /\ [][items' # items
          => /\ lv_pc = "loop" /\ lv_lines # <<>> /\ current_item # <<>>
             /\ IsQuantityLine(Head(lv_lines))
             /\ Len(items') = Len(items) + 1
             /\ SubSeq(items', 1, Len(items)) = items
             /\ items'[Len(items')].oz = current_item[1].oz]_vars

\* C24: the input has ended with the item of "01.01.0010 Beton" open, after
\* a line that matches the quantity/unit pattern with a number float()
\* refuses; the flush adds nothing.
C24_OpenItemAtEndOfInput ==
  /\ LvLines(lv_pages) = <<lnOz1, lnBadNum>>
  /\ QtyMatch(lnBadNum).ok
  /\ lv_pc = "done"
  /\ current_item # <<>>
  /\ items = <<>>

(***************************************************************************)
(* Properties of the wizard.                                               *)
(***************************************************************************)

\* C1: whenever the "LV verarbeiten" handler has called
\* analyze_with_azure_ai and got zero items over all pages, it has run the
\* regex path (and logged the fallback), its final item list equals
\* extract_lv_items of the same pages, and this list, when not empty, is
\* what the session holds in step 2.
C1_FallbackEqualsRegex ==
  (run # <<>> /\ run[1].ai_called /\ run[1].ai_items = <<>>)
    => /\ run[1].extracted_items = extract_lv_items(run[1].pages_content)
       /\ session_log # <<>>
       /\ session_log[Len(session_log)] = LogEntry("warning", "fallback", 0)
       /\ run[1].extracted_items # <<>>
            => (step = 2 /\ extracted_items = run[1].extracted_items)

\* C1: a run in which the AI path was taken, returned nothing, and the regex
\* path found an item
C1_FallbackFoundItems ==
  /\ run # <<>>
  /\ run[1].use_ai
  /\ run[1].ai_called
  /\ run[1].ai_items = <<>>
  /\ run[1].extracted_items # <<>>
  /\ step = 2
  /\ Len(results_df) = Len(run[1].extracted_items)

\* the sum of Menge * Preis over the rows, rows with an empty factor left out
RECURSIVE ProductSum(_)
ProductSum(df) ==
  IF df = <<>> THEN 0
  ELSE (IF Head(df).Menge.t = "num" /\ Head(df).Preis.t = "num"
        THEN Head(df).Menge.v * Head(df).Preis.v ELSE 0)
       + ProductSum(Tail(df))

\* C5: in every state of the wizard each row of the results table has
\* Gesamt = Menge * Preis, the total shown in step 3 is the sum of the rows'
\* Gesamt, and so is the total handed to save_to_history.
C5_GesamtIsProduct ==
  /\ \A i \in DOMAIN results_df :
       JEq(results_df[i].Gesamt,
           Times(results_df[i].Menge, results_df[i].Preis))
  /\ step = 3 => total = ProductSum(results_df)
  /\ saved # <<>> => saved[1].total_price = ProductSum(results_df)

\* C5: step 3 reached and saved after quantity and price of a row were
\* edited, beside a row that kept its matched price
C5_SavedAfterEdits ==
  /\ step = 3
  /\ saved # <<>>
  /\ saved[1].total_price = 40000
  /\ Len(results_df) = 2
  /\ \E i \in DOMAIN results_df :
       /\ JEq(results_df[i].Menge, JNum(200))
       /\ JEq(results_df[i].Preis, JNum(200))
       /\ JEq(results_df[i].Gesamt, JNum(40000))

(***************************************************************************)
(* Properties of the catalog operations.                                   *)
(***************************************************************************)

\* C12: whatever catalog operations have been made, every loaded entry has
\* an integer id, no two loaded entries have the same id, and an operation
\* that leaves the entries of the table in place (an import appending to
\* them, a save that keeps them) leaves their ids as they were.
C12_IdsIntegerUniqueStable ==
  /\ [](\A i \in DOMAIN price_db : price_db[i].id.t = "num")
  /\ [](\A i, j \in DOMAIN price_db :
          (price_db[i].id.t = "num" /\ price_db[j].id.t = "num"
             /\ price_db[i].id.v = price_db[j].id.v) => i = j)
  /\ [][(Len(price_db') >= Len(price_db)
           /\ \A i \in DOMAIN price_db :
                price_db'[i].description = price_db[i].description)
          => \A i \in DOMAIN price_db : JEq(price_db'[i].id, price_db[i].id)]_vars

(***************************************************************************)
(* Properties of the Excel import.                                         *)
(***************************************************************************)

\* the coercion of a price string: the currency symbol stripped, the
\* thousands dot removed, the decimal comma turned into a dot
CoercedPrice(s) ==
  PyFloat(Strip(Replace(Replace(Replace(s, Euro, <<>>), ".", <<>>), ",", <<".">>)))

\* C10: after an Excel import, on whichever path it took, a row whose price
\* string cannot be coerced or whose description is missing has contributed
\* nothing, and a row with a price string that was inserted carries the
\* coerced value of that string ("1.234,56 EUR" is 1234.56).
C10_PriceCoercedOrRowDropped ==
  (run # <<>> /\ run[1].ext = ".xlsx") =>
    \A i \in DOMAIN run[1].df_import.rows :
      LET row   == run[1].df_import.rows[i]
          given == run[1].out[i]
      IN  /\ (row.desc.t = "nan"
               \/ (row.price.t = "str" /\ ~CoercedPrice(row.price.v).ok))
              => given = <<>>
          /\ (row.price.t = "str" /\ given # <<>>)
              => JEq(given[1].price_min, JNum(CoercedPrice(row.price.v).v))


(***************************************************************************)
(* C19: decoding an AI response into an item list follows one precedence   *)
(* order: a top-level array is used as is; otherwise the list under        *)
(* 'items'; otherwise any other list-valued field; otherwise the single    *)
(* object is one item.  An object holding both an 'items' list and another *)
(* list-valued field decodes to the 'items' list.  Stated on               *)
(* analyze_with_azure_ai: the items a page adds to all_items are the ones  *)
(* of the list this order selects.                                         *)
(***************************************************************************)
DecodeByPrecedence(j) ==
  IF j.t = "list" THEN j.v
  ELSE IF HasKey(j, "items") /\ Get(j, "items", JNull).t = "list"
    THEN Get(j, "items", JNull).v
  ELSE IF \E i \in DOMAIN j.v : j.v[i][2].t = "list"
    THEN j.v[CHOOSE i \in DOMAIN j.v :
                /\ j.v[i][2].t = "list"
                /\ \A h \in 1..(i - 1) : j.v[h][2].t # "list"][2].v
  ELSE <<j>>

C19_DecodePrecedence ==
  [][(/\ ai_pc = "wait"
      /\ Len(responses') = Len(responses) + 1
      /\ responses'[Len(responses')].kind = "json"
      /\ responses'[Len(responses')].json.t \in {"list", "dict"})
     => all_items' =
          AiCollect(all_items,
                    DecodeByPrecedence(responses'[Len(responses')].json)).all_items]_vars


(***************************************************************************)
(* C16: extract_metadata_with_ai never raises to its caller: with AI       *)
(* disabled it issues no request, on any failure (disabled AI, transport   *)
(* error, malformed JSON, JSON of an unexpected shape) it returns the pair *)
(* ("", ""); in every case both returned components are strings.          *)
(***************************************************************************)
C16_MetadataPairOfStrings ==
  meta_pc = "done" =>
    /\ Len(meta_return) = 1
    /\ ~ai_enabled => (meta_requests = 0 /\ meta_return[1] = MetaExcept)
    /\ (meta_response # <<>>
          /\ (meta_response[1].kind # "json" \/ meta_response[1].json.t # "dict"))
         => meta_return[1] = MetaExcept
    /\ meta_return[1].recipient.t = "str"
    /\ meta_return[1].project_name.t = "str"


\* C25: a run of "LV verarbeiten" that yields no items (after any fallback)
\* leaves the wizard in step 1 with the stored extracted items, results
\* table and file name as they were, and the wizard goes from step 1 to
\* step 2 only in a run that extracted at least one item.
C25_NoItemsStaysInStepOne ==
  [][/\ (step = 1 /\ run' # <<>> /\ run'[1].extracted_items = <<>>)
          => /\ step' = 1
             /\ extracted_items' = extracted_items
             /\ results_df' = results_df
             /\ file_name' = file_name
     /\ (step = 1 /\ step' = 2)
          => (run' # <<>> /\ run'[1].extracted_items # <<>>
                /\ extracted_items' = run'[1].extracted_items)]_vars

\* C25: back in step 1 with the items of file "a" stored, a run has found
\* nothing and has left them in place.
C25_EmptyRunKeepsStoredItems ==
  /\ step = 1
  /\ run # <<>>
  /\ run[1].extracted_items = <<>>
  /\ extracted_items # <<>>
  /\ results_df # <<>>
  /\ file_name = <<"a">>

\* C26: the wizard never gets stuck: in every reachable state with the
\* wizard in step 2 or 3, a button that leads to another step can be
\* pressed (step 2: "Zurueck" or "Weiter zum Export"; step 3: "Neues
\* Angebot" or "Zurueck"), so that step 1 can always be reached again.
C26_StepCanAlwaysBeLeft ==
  /\ step \in {1, 2, 3}
  /\ step = 2 => (ENABLED BackToUpload \/ ENABLED ToExport)
  /\ step = 3 => (ENABLED ResetWizard \/ ENABLED BackToReview)

(***************************************************************************)
(* Properties of the PDF import.                                           *)
(***************************************************************************)

\* C15: the price-list PDF import applies the page filter of
\* analyze_with_azure_ai: on its AI path a page is sent to the collaborator
\* exactly once if it has at least 50 characters and is not blank, and is
\* skipped with no request otherwise.
C15_SamePageFilter ==
  (run # <<>> /\ run[1].ext = ".pdf" /\ run[1].use_ai_import)
    => run[1].requests =
         SelectSeq([i \in DOMAIN run[1].pages_text |-> i],
                   LAMBDA i : ~AiSkips(run[1].pages_text[i]))

\* C18: after an import, every row it wrote to the catalog carries the tag
\* of the strategy that produced it ('AI Excel Import', 'Import',
\* 'AI PDF Import', 'PDF Standard Import'); the fallback has contributed
\* rows only if the AI strategy contributed none, so all rows of the import
\* share one tag.
C18_OneTagPerImport ==
  (run # <<>>) =>
    LET md    == run[1].mapped_data
        first == Len(price_db) - Len(md)
        excel == run[1].ext = ".xlsx"
    IN  /\ md = run[1].ai_rows \o run[1].fallback_rows
        /\ \A k \in DOMAIN run[1].ai_rows :
             run[1].ai_rows[k].category =
               (IF excel THEN "AI Excel Import" ELSE "AI PDF Import")
        /\ \A k \in DOMAIN run[1].fallback_rows :
             run[1].fallback_rows[k].category =
               (IF excel THEN "Import" ELSE "PDF Standard Import")
        /\ run[1].fallback_rows # <<>> => run[1].ai_rows = <<>>
        /\ \A j, k \in DOMAIN md : md[j].category = md[k].category
        /\ \A k \in DOMAIN md : price_db[first + k].category = md[k].category

\* C18: a PDF import whose AI strategy gave a row, on a file the regex
\* fallback finds a row in as well; the catalog holds the row of the AI.
C18_AiRowsAndNoFallback ==
  /\ run # <<>>
  /\ run[1].ext = ".pdf"
  /\ run[1].pages_text = <<ppBeton>>
  /\ Len(run[1].ai_rows) = 1
  /\ PdfRegexRows(run[1].pages_text) # <<>>
  /\ Len(price_db) = 1
  /\ price_db[1].category = "AI PDF Import"


\* the numeric value, in hundredths, of a price token: digits, a comma or a
\* dot, two decimal digits
TokenValue(token) ==
  100 * DigitsVal(SubSeq(token, 1, Len(token) - 3))
    + Hundredths(SubSeq(token, Len(token) - 1, Len(token)))

\* the row a line of the PDF gives when its price is the value of its token
TokenRow(raw) ==
  Eager(LAMBDA match :
          IF Len(Strip(raw)) >= 5 /\ match.ok /\ Len(Strip(match.g1)) > 3
               /\ 10 < TokenValue(match.g2) /\ TokenValue(match.g2) < 10000000
          THEN <<[description |-> Strip(match.g1), price |-> TokenValue(match.g2)]>>
          ELSE <<>>,
        PdfMatch(Strip(raw)))

\* C23: in the regex fallback of the PDF import the price stored for a
\* matched line is the numeric value of the matched token with its two
\* decimal digits, for a decimal comma and for a decimal dot
\* ("Beton C25/30 145,00" gives 145.00, "Some Text 12.50" gives 12.50), and
\* only rows with a description longer than 3 and 0.1 < price < 100000 are
\* kept.
C23_FallbackPriceIsTokenValue ==
  (run # <<>> /\ run[1].ext = ".pdf" /\ run[1].ai_rows = <<>>)
    => LET lines    == Split(Join(run[1].pages_text, "\n"), "\n")
           expected == Flatten([i \in DOMAIN lines |-> TokenRow(lines[i])])
       IN  /\ Len(run[1].fallback_rows) = Len(expected)
           /\ \A k \in DOMAIN expected :
                /\ run[1].fallback_rows[k].description = expected[k].description
                /\ run[1].fallback_rows[k].price_min = JNum(expected[k].price)
                /\ run[1].fallback_rows[k].price_max = JNum(expected[k].price)

=============================================================================
